---- MODULE Spec2Model ----
(***************************************************************************)
(* A model of wand.drawing.Drawing (src/wand/drawing.py): a wrapper object *)
(* that owns one native drawing-wand handle, validates the arguments of    *)
(* every property setter and drawing method, and forwards them to the      *)
(* native library.  The wrapper's state is the handle each object stores;  *)
(* the native library's state is the set of live wands and what each wand  *)
(* holds.  Every public operation is one action; `last` records the call   *)
(* just made, how it ended, what it returned and which native calls it     *)
(* issued, in order.                                                       *)
(***************************************************************************)
EXTENDS Integers, Sequences, FiniteSets, TLC

\* ------------------------------------------------------------------ bounds
\* Wrapper objects a behaviour constructs.
MaxObjs == 2
\* Vector instructions a wand accumulates.
MaxOps == 1
\* Largest magnitude of the numbers passed as arguments.
MaxNum == 1

Objs == 1..MaxObjs
\* Native drawing-wand addresses: a successful construction takes a fresh one.
Handles == 1..MaxObjs

\* ----------------------------------------------------------- Python values
\* A Python value is a tuple whose first element is its type.
PyNone == <<"NoneType">>
PyInt(n) == <<"int", n>>
PyStr(s) == <<"str", s>>
PyDrawing(o) == <<"Drawing", o>>
PyColor(c) == <<"Color", c>>
PyFloat(n) == <<"float", n>>
PyBool(b) == <<"bool", b>>
PyTuple(s) == <<"tuple", s>>
PyList(s) == <<"list", s>>
PyImage(i) == <<"Image", i>>
\* What an operation that raised hands back: nothing.
NoReturn == <<"raised">>

isinstance_string_type(v) == v[1] = "str"
isinstance_Real(v) == v[1] \in {"int", "float"}
isinstance_Integral(v) == v[1] = "int"
isinstance_list(v) == v[1] = "list"
isinstance_Image(v) == v[1] = "Image"
isinstance_Color(v) == v[1] = "Color"
isinstance_Drawing(v) == v[1] = "Drawing"
\* Python truth value: None, 0 and '' are false, every object is true.
Truthy(v) ==
    CASE v[1] = "NoneType" -> FALSE
      [] v[1] \in {"int", "float"} -> v[2] # 0
      [] v[1] = "bool" -> v[2]
      [] v[1] \in {"tuple", "list"} -> v[2] # <<>>
      [] v[1] = "str" -> v[2] # ""
      [] OTHER -> TRUE

\* The stored handle reference after destruction.
None == 0
\* The native library's null pointer.
NULL == 0

\* ------------------------------------------------------- enumerated tokens
CLIP_PATH_UNITS ==
    <<"undefined_path_units", "user_space", "user_space_on_use",
      "object_bounding_box">>
TEXT_ALIGN_TYPES == <<"undefined", "left", "center", "right">>
TEXT_DECORATION_TYPES ==
    <<"undefined", "no", "underline", "overline", "line_through">>
TEXT_DIRECTION_TYPES == <<"undefined", "right_to_left", "left_to_right">>
GRAVITY_TYPES ==
    <<"forget", "north_west", "north", "north_east", "west", "center", "east",
      "south_west", "south", "south_east", "static">>
FILL_RULE_TYPES == <<"undefined", "evenodd", "nonzero">>
LINE_CAP_TYPES == <<"undefined", "butt", "round", "square">>
LINE_JOIN_TYPES == <<"undefined", "miter", "round", "bevel">>

EnumProps ==
    {"clip_rule", "clip_units", "fill_rule", "stroke_line_cap",
     "stroke_line_join", "text_alignment", "text_decoration",
     "text_direction", "gravity"}

\* The token list each enumerated property's setter and getter use.
TYPES(p) ==
    CASE p = "clip_rule" -> FILL_RULE_TYPES
      [] p = "clip_units" -> CLIP_PATH_UNITS
      [] p = "fill_rule" -> FILL_RULE_TYPES
      [] p = "stroke_line_cap" -> LINE_CAP_TYPES
      [] p = "stroke_line_join" -> LINE_JOIN_TYPES
      [] p = "text_alignment" -> TEXT_ALIGN_TYPES
      [] p = "text_decoration" -> TEXT_DECORATION_TYPES
      [] p = "text_direction" -> TEXT_DIRECTION_TYPES
      [] p = "gravity" -> GRAVITY_TYPES

Range(s) == {s[i] : i \in 1..Len(s)}

\* Python's `x in seq`: a string token is in the tuple when an element
\* equals it; an integer never equals a string element.
InTuple(v, seq) == isinstance_string_type(v) /\ v[2] \in Range(seq)

\* Python's seq.index(x): the 0-based position of the first element equal
\* to x.
TupleIndex(seq, x) ==
    (CHOOSE i \in 1..Len(seq) :
        seq[i] = x /\ \A j \in 1..(i - 1) : seq[j] # x) - 1

\* Python's seq[i] for a 0-based i inside the tuple.
TupleAt(seq, i) == seq[i + 1]

\* --------------------------------------------------------------- variables
VARIABLES
    focus,          \* the property or method this behaviour exercises
    given,          \* the argument its setter or method is called with
    libInterline,   \* the interline-spacing entry points were resolved at load
    exists,         \* exists[o]: construction of wrapper o completed
    c_resource,     \* c_resource[o]: the handle wrapper o stores, or None
    acquired,       \* acquired[o]: the handle o's construction stored (history)
    clonedFrom,     \* clonedFrom[o]: the wrapper o was cloned from, or 0 (history)
    scope,          \* scope[o]: "none", "in" a with-block, or "left" it
    nextHandle,     \* the next address the native allocator hands out
    live,           \* the native wands allocated and not yet destroyed
    wand,           \* wand[h]: what native wand h holds
    destroyCalls,   \* destroyCalls[h]: native destroy calls made on h
    last            \* the operation just performed

vars ==
    <<focus, given, libInterline, exists, c_resource, acquired, clonedFrom,
      scope, nextHandle, live, wand, destroyCalls, last>>

\* ------------------------------------------------------ the native library
Colors == {"none", "red", "blue"}

\* What NewDrawingWand's wand holds.
\* The properties the native state holds as plain values behind one
\* DrawSet/DrawGet entry point pair each.
OpacityProps == {"fill_opacity", "stroke_opacity"}
SpacingProps == {"text_kerning", "text_interword_spacing"}
FlagProps == {"stroke_antialias", "text_antialias"}
StringProps == {"font", "clip_path", "text_encoding"}
PaintProps == {"fill_color", "text_under_color"}
PlainProps ==
    OpacityProps \cup SpacingProps \cup FlagProps \cup StringProps \cup
        PaintProps \cup
        {"stroke_miter_limit", "stroke_dash_offset", "stroke_dash_array"}

NativeName(p) ==
    CASE p = "fill_opacity" -> "FillOpacity"
      [] p = "stroke_opacity" -> "StrokeOpacity"
      [] p = "text_kerning" -> "TextKerning"
      [] p = "text_interword_spacing" -> "TextInterwordSpacing"
      [] p = "stroke_antialias" -> "StrokeAntialias"
      [] p = "text_antialias" -> "TextAntialias"
      [] p = "font" -> "Font"
      [] p = "clip_path" -> "ClipPath"
      [] p = "text_encoding" -> "TextEncoding"
      [] p = "fill_color" -> "FillColor"
      [] p = "text_under_color" -> "TextUnderColor"
      [] p = "stroke_miter_limit" -> "StrokeMiterLimit"
      [] p = "stroke_dash_offset" -> "StrokeDashOffset"
      [] p = "stroke_dash_array" -> "StrokeDashArray"

PlainSetter(p) == "DrawSet" \o NativeName(p)
PlainGetter(p) == "DrawGet" \o NativeName(p)
PropOfPlainSetter(f) == CHOOSE p \in PlainProps : PlainSetter(p) = f

\* What a new drawing wand holds: opaque paint, no extra spacing,
\* antialiasing on, no font, clip path or encoding chosen, no dashes.
PropDefault(p) ==
    CASE p \in OpacityProps -> 1
      [] p \in SpacingProps -> 0
      [] p \in FlagProps -> 1
      [] p \in StringProps -> ""
      [] p \in PaintProps -> "none"
      [] p = "stroke_miter_limit" -> 10
      [] p = "stroke_dash_offset" -> 0
      [] p = "stroke_dash_array" -> <<>>

NewWandState ==
    [enum |->
        [p \in EnumProps |->
            CASE p \in {"text_alignment", "text_direction", "gravity"} -> 0
              [] OTHER -> 1],
     stroke_width |-> 1,
     font_size |-> 12,
     stroke_color |-> "none",
     text_interline_spacing |-> 0,
     prop |-> [p \in PlainProps |-> PropDefault(p)],
     ops |-> <<>>,
     exception |-> FALSE]

\* Freed memory: nothing of the wand is left.
FreedWand ==
    [enum |-> [p \in EnumProps |-> 0],
     stroke_width |-> 0,
     font_size |-> 0,
     stroke_color |-> "none",
     text_interline_spacing |-> 0,
     prop |-> [p \in PlainProps |-> PropDefault(p)],
     ops |-> <<>>,
     exception |-> FALSE]

\* The native entry points of each enumerated property.
NativeSetter(p) ==
    CASE p = "clip_rule" -> "DrawSetClipRule"
      [] p = "clip_units" -> "DrawSetClipUnits"
      [] p = "fill_rule" -> "DrawSetFillRule"
      [] p = "stroke_line_cap" -> "DrawSetStrokeLineCap"
      [] p = "stroke_line_join" -> "DrawSetStrokeLineJoin"
      [] p = "text_alignment" -> "DrawSetTextAlignment"
      [] p = "text_decoration" -> "DrawSetTextDecoration"
      [] p = "text_direction" -> "DrawSetTextDirection"
      [] p = "gravity" -> "DrawSetGravity"

NativeGetter(p) ==
    CASE p = "clip_rule" -> "DrawGetClipRule"
      [] p = "clip_units" -> "DrawGetClipUnits"
      [] p = "fill_rule" -> "DrawGetFillRule"
      [] p = "stroke_line_cap" -> "DrawGetStrokeLineCap"
      [] p = "stroke_line_join" -> "DrawGetStrokeLineJoin"
      [] p = "text_alignment" -> "DrawGetTextAlignment"
      [] p = "text_decoration" -> "DrawGetTextDecoration"
      [] p = "text_direction" -> "DrawGetTextDirection"
      [] p = "gravity" -> "DrawGetGravity"

PropOfSetter(f) == CHOOSE p \in EnumProps : NativeSetter(p) = f

\* One native call: the entry point, the wand handle passed (NULL when the
\* entry point takes none), the other arguments, and whether the library
\* carried it out (a call that fails leaves an exception on the wand).
Call(f, h, a) == [f |-> f, h |-> h, a |-> a, ok |-> TRUE]
FailedCall(f, h, a) == [f |-> f, h |-> h, a |-> a, ok |-> FALSE]

\* The native calls that append a vector instruction to the wand.
DrawingEntryPoints ==
    {"DrawRectangle", "DrawSkewX", "DrawSkewY", "DrawPolygon", "DrawPolyline",
     "DrawBezier", "DrawLine", "DrawCircle", "DrawEllipse", "DrawArc",
     "DrawPoint", "DrawColor", "DrawMatte", "DrawAnnotation", "DrawPathStart", "DrawPathFinish", "DrawPathClose",
     "DrawPathMoveToRelative", "DrawPathMoveToAbsolute",
     "DrawPathLineToRelative", "DrawPathLineToAbsolute",
     "DrawPathLineToHorizontalRelative", "DrawPathLineToHorizontalAbsolute",
     "DrawPathLineToVerticalRelative", "DrawPathLineToVerticalAbsolute",
     "DrawPathCurveToSmoothRelative", "DrawPathCurveToSmoothAbsolute",
     "DrawPathCurveToRelative", "DrawPathCurveToAbsolute",
     "DrawPathCurveToQuadraticBezierSmoothRelative",
     "DrawPathCurveToQuadraticBezierSmoothAbsolute",
     "DrawPathCurveToQuadraticBezierRelative",
     "DrawPathCurveToQuadraticBezierAbsolute",
     "DrawPathEllipticArcRelative", "DrawPathEllipticArcAbsolute"}

\* The wand a native call leaves behind.
\* Every property the native state holds.
AllProps ==
    EnumProps \cup PlainProps \cup
        {"stroke_width", "font_size", "stroke_color",
         "text_interline_spacing"}

\* The value of property p held in the wand state s.
Held(s, p) ==
    CASE p \in EnumProps -> s.enum[p]
      [] p \in PlainProps -> s.prop[p]
      [] p = "stroke_width" -> s.stroke_width
      [] p = "font_size" -> s.font_size
      [] p = "stroke_color" -> s.stroke_color
      [] p = "text_interline_spacing" -> s.text_interline_spacing

\* The wand state s with v written to property p.
WriteHeld(s, p, v) ==
    CASE p \in EnumProps -> [s EXCEPT !.enum[p] = v]
      [] p \in PlainProps -> [s EXCEPT !.prop[p] = v]
      [] p = "stroke_width" -> [s EXCEPT !.stroke_width = v]
      [] p = "font_size" -> [s EXCEPT !.font_size = v]
      [] p = "stroke_color" -> [s EXCEPT !.stroke_color = v]
      [] p = "text_interline_spacing" ->
            [s EXCEPT !.text_interline_spacing = v]

\* Vector-graphics documents: XmlFor(p) is a document the native parser
\* understands, carrying the value XmlValue(p) for property p.
XmlFor(p) == "<" \o p \o ">"
XmlValue(p) ==
    CASE p \in EnumProps -> 2
      [] p \in OpacityProps -> 0
      [] p \in SpacingProps -> 1
      [] p \in FlagProps -> 0
      [] p \in StringProps -> "xml"
      [] p \in PaintProps -> "red"
      [] p = "stroke_miter_limit" -> 4
      [] p = "stroke_dash_offset" -> 1
      [] p = "stroke_dash_array" -> <<1>>
      [] p = "stroke_width" -> 0
      [] p = "font_size" -> 1
      [] p = "stroke_color" -> "red"
      [] p = "text_interline_spacing" -> 1
Understood(doc) == doc \in {XmlFor(p) : p \in AllProps}
PropOfXml(doc) == CHOOSE p \in AllProps : XmlFor(p) = doc

ApplyCall(w, c) ==
    IF c.h \notin Handles THEN w
    ELSE IF ~c.ok THEN [w EXCEPT ![c.h].exception = TRUE]
    ELSE IF c.f \in {NativeSetter(p) : p \in EnumProps}
        THEN [w EXCEPT ![c.h].enum[PropOfSetter(c.f)] = c.a[1]]
    ELSE IF c.f = "DrawSetStrokeWidth"
        THEN [w EXCEPT ![c.h].stroke_width = c.a[1]]
    ELSE IF c.f = "DrawSetFontSize"
        THEN [w EXCEPT ![c.h].font_size = c.a[1]]
    ELSE IF c.f = "DrawSetStrokeColor"
        THEN [w EXCEPT ![c.h].stroke_color = c.a[1]]
    ELSE IF c.f = "DrawSetTextInterlineSpacing"
        THEN [w EXCEPT ![c.h].text_interline_spacing = c.a[1]]
    ELSE IF c.f = "ClearDrawingWand"
        THEN [w EXCEPT ![c.h] = NewWandState]
    ELSE IF c.f = "DrawResetVectorGraphics"
        THEN [w EXCEPT ![c.h].ops = <<>>]
    ELSE IF c.f = "DrawSetVectorGraphics"
        THEN [w EXCEPT ![c.h] =
                WriteHeld(@, PropOfXml(c.a[1]), XmlValue(PropOfXml(c.a[1])))]
    ELSE IF c.f \in {PlainSetter(p) : p \in PlainProps}
        THEN [w EXCEPT ![c.h].prop[PropOfPlainSetter(c.f)] = c.a[1]]
    ELSE IF c.f \in DrawingEntryPoints
        THEN [w EXCEPT ![c.h].ops = Append(@, c.f)]
    ELSE IF c.f = "DrawClearException"
        THEN [w EXCEPT ![c.h].exception = FALSE]
    ELSE w

RECURSIVE ApplyCalls(_, _)
ApplyCalls(w, cs) ==
    IF cs = <<>> THEN w ELSE ApplyCalls(ApplyCall(w, Head(cs)), Tail(cs))

\* Instructions the calls append to wand h.
Appends(cs, h) ==
    Cardinality({i \in 1..Len(cs) :
        cs[i].h = h /\ cs[i].ok /\ cs[i].f \in DrawingEntryPoints})

\* library.IsDrawingWand, the class's c_is_resource.
c_is_resource(lv, h) == h \in lv

\* c_destroy_resource bound to an entry point that empties the wand and
\* leaves it allocated.
c_destroy_resource_kept(h) ==
    [live |-> live,
     wand |-> [wand EXCEPT ![h].ops = <<>>],
     destroyCalls |-> [destroyCalls EXCEPT ![h] = @ + 1],
     calls |-> <<Call("ClearDrawingWand", h, <<>>)>>]

\* library.DestroyDrawingWand, the class's c_destroy_resource: the native
\* state after the call, and the call.
c_destroy_resource(h) ==
    [live |-> live \ {h},
     wand |-> [wand EXCEPT ![h] = FreedWand],
     destroyCalls |-> [destroyCalls EXCEPT ![h] = @ + 1],
     calls |-> <<Call("DestroyDrawingWand", h, <<>>)>>]

\* ------------------------------------------------------------ Resource base
\* Resource.resource read on a wrapper whose stored reference is `res`.
resource_closed(res) == res = None

\* Resource.raise_exception on wand state ws: query the wand's last error;
\* when one is pending, clear it and raise it.
raise_exception(pending, h) ==
    IF pending
    THEN [raises |-> TRUE,
          calls |-> <<Call("DrawGetException", h, <<>>),
                      Call("DrawClearException", h, <<>>)>>]
    ELSE [raises |-> FALSE, calls |-> <<Call("DrawGetException", h, <<>>)>>]

\* How destroy() ends on a wrapper that is already destroyed.
RepeatedDestroyOutcomes == {"DestroyedResourceError", "ok"}

\* ---------------------------------------------------------------- results
Result(outcome, ret, calls) ==
    [outcome |-> outcome, ret |-> ret, calls |-> calls]
Raise(exc, calls) == Result(exc, NoReturn, calls)
Return(ret, calls) == Result("ok", ret, calls)

\* -------------------------------------------------- construction, cloning
\* library.NewDrawingWand(): a fresh wand, or NULL when the library cannot
\* allocate one.
NewDrawingWand(allocOk) ==
    IF allocOk
    THEN [raise |-> "", h |-> nextHandle,
          live |-> live \cup {nextHandle},
          wand |-> [wand EXCEPT ![nextHandle] = NewWandState],
          next |-> nextHandle + 1,
          calls |-> <<Call("NewDrawingWand", NULL, <<>>)>>]
    ELSE [raise |-> "", h |-> NULL, live |-> live, wand |-> wand,
          next |-> nextHandle,
          calls |-> <<FailedCall("NewDrawingWand", NULL, <<>>)>>]

\* library.CloneDrawingWand(src): a fresh wand holding a copy of what src
\* holds, or NULL.
CloneDrawingWand(src, allocOk) ==
    IF allocOk
    THEN [raise |-> "", h |-> nextHandle,
          live |-> live \cup {nextHandle},
          wand |-> [wand EXCEPT
                        ![nextHandle] = [wand[src] EXCEPT !.exception = FALSE]],
          next |-> nextHandle + 1,
          calls |-> <<Call("CloneDrawingWand", src, <<>>)>>]
    ELSE [raise |-> "", h |-> NULL, live |-> live, wand |-> wand,
          next |-> nextHandle,
          calls |-> <<FailedCall("CloneDrawingWand", src, <<>>)>>]

InitRaise(exc) ==
    [raise |-> exc, h |-> NULL, live |-> live, wand |-> wand,
     next |-> nextHandle, calls |-> <<>>]

\* Drawing.__init__ storing the source's own handle instead of a clone's.
Drawing_init_shared(drawing, allocOk) ==
    IF ~Truthy(drawing) THEN NewDrawingWand(allocOk)
    ELSE IF ~isinstance_Drawing(drawing) THEN InitRaise("TypeError")
    ELSE IF resource_closed(c_resource[drawing[2]])
        THEN InitRaise("DestroyedResourceError")
    ELSE [raise |-> "", h |-> c_resource[drawing[2]], live |-> live,
          wand |-> wand, next |-> nextHandle, calls |-> <<>>]

\* Drawing.__init__ asking for a new wand where it should clone.
Drawing_init_fresh(drawing, allocOk) ==
    IF ~Truthy(drawing) THEN NewDrawingWand(allocOk)
    ELSE IF ~isinstance_Drawing(drawing) THEN InitRaise("TypeError")
    ELSE IF resource_closed(c_resource[drawing[2]])
        THEN InitRaise("DestroyedResourceError")
    ELSE NewDrawingWand(allocOk)

\* Drawing.__init__'s body up to the assignment of self.resource: the
\* exception it raises ("" for none), the wand it obtained and the native
\* state it leaves.
Drawing_init(drawing, allocOk) ==
    IF ~Truthy(drawing) THEN NewDrawingWand(allocOk)
    ELSE IF ~isinstance_Drawing(drawing) THEN InitRaise("TypeError")
    ELSE IF resource_closed(c_resource[drawing[2]])
        THEN InitRaise("DestroyedResourceError")
    ELSE CloneDrawingWand(c_resource[drawing[2]], allocOk)

\* Resource.resource assigned: the reference is stored when the library
\* recognises the handle, and the assignment raises otherwise.
resource_set(lv, h) == c_is_resource(lv, h)

\* The wrappers a behaviour constructs: one when it exercises rectangle,
\* whose arguments are many.
ObjsFor(f) ==
    IF f \in EnumProps \cup
            {"stroke_width", "font_size", "stroke_color",
             "text_interline_spacing", "skew"}
    THEN Objs ELSE {1}

\* With-blocks are entered in the behaviours that exercise these.
WithFocuses == {"stroke_width"}

\* A constructor call Drawing(drawing) building wrapper `self`, logged as op.
Construct(op, self, drawing, allocOk) ==
    LET r == Drawing_init(drawing, allocOk)
        stored == r.raise = "" /\ resource_set(r.live, r.h)
        outcome ==
            IF r.raise # "" THEN r.raise
            ELSE IF stored THEN "ok" ELSE "TypeError"
    IN  /\ self \in ObjsFor(focus)
        /\ ~exists[self]
        /\ \A o \in Objs : o < self => exists[o]
        /\ r.next <= MaxObjs + 1
        /\ exists' = [exists EXCEPT ![self] = stored]
        /\ c_resource' = [c_resource EXCEPT ![self] = IF stored THEN r.h ELSE None]
        /\ acquired' = [acquired EXCEPT ![self] = IF stored THEN r.h ELSE NULL]
        /\ clonedFrom' =
            [clonedFrom EXCEPT
                ![self] = IF stored /\ isinstance_Drawing(drawing)
                          THEN drawing[2] ELSE 0]
        /\ nextHandle' = r.next
        /\ live' = r.live
        /\ wand' = r.wand
        /\ last' =
            [kind |-> "new", op |-> op, obj |-> self, arg |-> drawing,
             outcome |-> outcome,
             ret |-> IF stored THEN PyDrawing(self) ELSE NoReturn,
             calls |-> r.calls]
        /\ UNCHANGED <<focus, given, libInterline, scope, destroyCalls>>

\* What a caller may pass as `drawing`.
DrawingArgs ==
    {PyNone, PyInt(0), PyInt(1)}
        \cup {PyDrawing(o) : o \in {x \in Objs : exists[x]}}

\* Drawing(drawing=...)
New(self, drawing, allocOk) == Construct("Drawing", self, drawing, allocOk)

\* Drawing.clone(): type(self)(drawing=self)
clone(o, self, allocOk) ==
    /\ exists[o]
    /\ Construct("clone", self, PyDrawing(o), allocOk)

\* ------------------------------------------------- destruction, with-block
\* Resource.destroy() on wrapper o: the native wand is destroyed through
\* c_destroy_resource and the stored reference becomes None.
Resource_destroy(o, repeated) ==
    IF resource_closed(c_resource[o])
    THEN [outcome |-> repeated, live |-> live, wand |-> wand,
          destroyCalls |-> destroyCalls, c_resource |-> c_resource,
          calls |-> <<>>]
    ELSE LET d == c_destroy_resource(c_resource[o])
         IN  [outcome |-> "ok", live |-> d.live, wand |-> d.wand,
              destroyCalls |-> d.destroyCalls,
              c_resource |-> [c_resource EXCEPT ![o] = None],
              calls |-> d.calls]

Destroyed(op, o, arg, d) ==
    /\ live' = d.live
    /\ wand' = d.wand
    /\ destroyCalls' = d.destroyCalls
    /\ c_resource' = d.c_resource
    /\ last' =
        [kind |-> "destroy", op |-> op, obj |-> o, arg |-> arg,
         outcome |-> d.outcome,
         ret |-> IF d.outcome = "ok" THEN PyNone ELSE NoReturn,
         calls |-> d.calls]

\* drawing.destroy()
destroy(o) ==
    /\ exists[o]
    /\ \E repeated \in RepeatedDestroyOutcomes :
        Destroyed("destroy", o, PyNone, Resource_destroy(o, repeated))
    /\ UNCHANGED <<focus, given, libInterline, exists, acquired, clonedFrom,
                   scope, nextHandle>>

\* `with drawing:` entered: Resource.__enter__ returns the wrapper.
enter(o) ==
    /\ focus \in WithFocuses
    /\ exists[o]
    /\ scope[o] = "none"
    /\ scope' = [scope EXCEPT ![o] = "in"]
    /\ last' =
        [kind |-> "enter", op |-> "__enter__", obj |-> o, arg |-> PyNone,
         outcome |-> "ok", ret |-> PyDrawing(o), calls |-> <<>>]
    /\ UNCHANGED <<focus, given, libInterline, exists, c_resource, acquired,
                   clonedFrom, nextHandle, live, wand, destroyCalls>>

\* The with-block left, its body having completed or raised:
\* Resource.__exit__ destroys the wrapper.
exit(o, raised) ==
    /\ exists[o]
    /\ scope[o] = "in"
    /\ scope' = [scope EXCEPT ![o] = "left"]
    /\ \E repeated \in RepeatedDestroyOutcomes :
        Destroyed("__exit__", o, <<"bool", raised>>,
                  Resource_destroy(o, repeated))
    /\ UNCHANGED <<focus, given, libInterline, exists, acquired, clonedFrom,
                   nextHandle>>

\* ------------------------------------------ property and method operations
\* A call on wrapper o that ended as r: the native calls it issued take
\* effect in order.
OpStep(kind, op, o, arg, r) ==
    /\ exists[o]
    /\ \A h \in Handles : Len(wand[h].ops) + Appends(r.calls, h) <= MaxOps
    /\ wand' = ApplyCalls(wand, r.calls)
    /\ last' =
        [kind |-> kind, op |-> op, obj |-> o, arg |-> arg,
         outcome |-> r.outcome, ret |-> r.ret, calls |-> r.calls]
    /\ UNCHANGED <<focus, given, libInterline, exists, c_resource, acquired,
                   clonedFrom, scope, nextHandle, live, destroyCalls>>

\* An enumerated setter passing the token's 1-based position.
enum_setter_one_based(p, value, res) ==
    IF ~isinstance_string_type(value) THEN Raise("TypeError", <<>>)
    ELSE IF ~InTuple(value, TYPES(p)) THEN Raise("ValueError", <<>>)
    ELSE IF resource_closed(res) THEN Raise("DestroyedResourceError", <<>>)
    ELSE Return(PyNone,
                <<Call(NativeSetter(p), res,
                       <<TupleIndex(TYPES(p), value[2]) + 1>>)>>)

\* An enumerated setter falling back to index 0 for an unknown token.
enum_setter_lenient(p, value, res) ==
    IF ~isinstance_string_type(value) THEN Raise("TypeError", <<>>)
    ELSE IF resource_closed(res) THEN Raise("DestroyedResourceError", <<>>)
    ELSE Return(PyNone,
                <<Call(NativeSetter(p), res,
                       <<IF InTuple(value, TYPES(p))
                         THEN TupleIndex(TYPES(p), value[2]) ELSE 0>>)>>)

\* The setter of enumerated property p (clip_rule, clip_units, fill_rule,
\* stroke_line_cap, stroke_line_join, text_alignment, text_decoration,
\* text_direction, gravity) on a wrapper whose stored reference is res.
enum_setter(p, value, res) ==
    IF ~isinstance_string_type(value) THEN Raise("TypeError", <<>>)
    ELSE IF ~InTuple(value, TYPES(p)) THEN Raise("ValueError", <<>>)
    ELSE IF resource_closed(res) THEN Raise("DestroyedResourceError", <<>>)
    ELSE Return(PyNone,
                <<Call(NativeSetter(p), res,
                       <<TupleIndex(TYPES(p), value[2])>>)>>)

\* compat.text(): a byte string is decoded, a text string is returned as
\* it is.  The getters of clip_rule and clip_units return the tuple's
\* element itself.
text(v) == IF v[1] = "bytes" THEN PyStr(v[2]) ELSE v
GetterText(p, v) == IF p \in {"clip_rule", "clip_units"} THEN v ELSE text(v)

\* Whether the getter of p takes its raise_exception() path for the index
\* the library returned: clip_rule and clip_units never do, fill_rule,
\* stroke_line_cap and stroke_line_join test `index not in TYPES`, the
\* others test `not index`.
\* An error path taken for an index outside the token list only.
GetterErrorPath_invalid_only(p, index) ==
    index \notin 0..(Len(TYPES(p)) - 1)

GetterErrorPath(p, index) ==
    CASE p \in {"clip_rule", "clip_units"} -> FALSE
      [] p \in {"fill_rule", "stroke_line_cap", "stroke_line_join"} ->
            ~InTuple(PyInt(index), TYPES(p))
      [] OTHER -> index = 0

\* The getter of enumerated property p.
enum_getter(p, res) ==
    IF resource_closed(res) THEN Raise("DestroyedResourceError", <<>>)
    ELSE
        LET index == wand[res].enum[p]
            get == <<Call(NativeGetter(p), res, <<>>)>>
            e == raise_exception(wand[res].exception, res)
            path == GetterErrorPath(p, index)
            calls == IF path THEN get \o e.calls ELSE get
        IN  IF path /\ e.raises THEN Raise("WandException", calls)
            ELSE IF index \notin 0..(Len(TYPES(p)) - 1)
                THEN Raise("IndexError", calls)
            ELSE Return(GetterText(p, PyStr(TupleAt(TYPES(p), index))), calls)

\* Values outside every list, a token of some lists only, a token in the
\* wrong case, and values that are no strings.
Bogus ==
    {PyStr("bogus"), PyStr("center"), PyStr("Undefined"), PyInt(1), PyNone}
EnumArgs(p) == {PyStr(t) : t \in Range(TYPES(p))} \cup Bogus

enum_set(o, p) ==
    /\ focus = p
    /\ OpStep("set", p, o, given, enum_setter(p, given, c_resource[o]))

enum_get(o, p) ==
    /\ focus = p
    /\ OpStep("get", p, o, PyNone, enum_getter(p, c_resource[o]))

\* Numbers a caller passes, with a value that is no number and None.
Nums == {-1} \cup 0..MaxNum
NumArgs == {PyInt(n) : n \in Nums} \cup {PyStr("x"), PyNone}

\* A stroke_width setter rejecting zero along with the negatives.
stroke_width_setter_positive(width, res) ==
    IF ~isinstance_Real(width) THEN Raise("TypeError", <<>>)
    ELSE IF width[2] <= 0 THEN Raise("ValueError", <<>>)
    ELSE IF resource_closed(res) THEN Raise("DestroyedResourceError", <<>>)
    ELSE Return(PyNone, <<Call("DrawSetStrokeWidth", res, <<width[2]>>)>>)

\* A stroke_width getter answering 0 for a destroyed wrapper.
stroke_width_getter_default(res) ==
    IF resource_closed(res) THEN Return(PyInt(0), <<>>)
    ELSE Return(PyInt(wand[res].stroke_width),
                <<Call("DrawGetStrokeWidth", res, <<>>)>>)

\* A stroke_width setter that reads its handle before it looks at the width.
stroke_width_setter_closed_first(width, res) ==
    IF resource_closed(res) THEN Raise("DestroyedResourceError", <<>>)
    ELSE IF ~isinstance_Real(width) THEN Raise("TypeError", <<>>)
    ELSE IF width[2] < 0 THEN Raise("ValueError", <<>>)
    ELSE Return(PyNone, <<Call("DrawSetStrokeWidth", res, <<width[2]>>)>>)

\* Drawing.stroke_width's setter.
stroke_width_setter(width, res) ==
    IF ~isinstance_Real(width) THEN Raise("TypeError", <<>>)
    ELSE IF width[2] < 0 THEN Raise("ValueError", <<>>)
    ELSE IF resource_closed(res) THEN Raise("DestroyedResourceError", <<>>)
    ELSE Return(PyNone, <<Call("DrawSetStrokeWidth", res, <<width[2]>>)>>)

\* Drawing.stroke_width's getter.
stroke_width_getter(res) ==
    IF resource_closed(res) THEN Raise("DestroyedResourceError", <<>>)
    ELSE Return(PyInt(wand[res].stroke_width),
                <<Call("DrawGetStrokeWidth", res, <<>>)>>)

\* Drawing.font_size's setter.
font_size_setter(size, res) ==
    IF ~isinstance_Real(size) THEN Raise("TypeError", <<>>)
    ELSE IF size[2] < 0 THEN Raise("ValueError", <<>>)
    ELSE IF resource_closed(res) THEN Raise("DestroyedResourceError", <<>>)
    ELSE Return(PyNone, <<Call("DrawSetFontSize", res, <<size[2]>>)>>)

\* Drawing.font_size's getter.
font_size_getter(res) ==
    IF resource_closed(res) THEN Raise("DestroyedResourceError", <<>>)
    ELSE Return(PyInt(wand[res].font_size),
                <<Call("DrawGetFontSize", res, <<>>)>>)

stroke_width_set(o) ==
    /\ focus = "stroke_width"
    /\ OpStep("set", "stroke_width", o, given,
              stroke_width_setter(given, c_resource[o]))

stroke_width_get(o) ==
    /\ focus = "stroke_width"
    /\ OpStep("get", "stroke_width", o, PyNone,
              stroke_width_getter(c_resource[o]))

font_size_set(o) ==
    /\ focus = "font_size"
    /\ OpStep("set", "font_size", o, given,
              font_size_setter(given, c_resource[o]))

font_size_get(o) ==
    /\ focus = "font_size"
    /\ OpStep("get", "font_size", o, PyNone, font_size_getter(c_resource[o]))

\* Drawing.stroke_color's setter: the colour's pixel wand is passed to the
\* library inside `with color:`.
stroke_color_setter(color, res) ==
    IF ~isinstance_Color(color) THEN Raise("TypeError", <<>>)
    ELSE IF resource_closed(res) THEN Raise("DestroyedResourceError", <<>>)
    ELSE Return(PyNone, <<Call("DrawSetStrokeColor", res, <<color[2]>>)>>)

\* Drawing.stroke_color's getter: a pixel wand is allocated, then filled
\* from the drawing wand.
stroke_color_getter(res) ==
    LET pixel == <<Call("NewPixelWand", NULL, <<>>)>>
    IN  IF resource_closed(res) THEN Raise("DestroyedResourceError", pixel)
        ELSE Return(PyColor(wand[res].stroke_color),
                    pixel \o <<Call("DrawGetStrokeColor", res, <<>>),
                               Call("PixelGetMagickColor", NULL, <<>>)>>)

ColorArgs == {PyColor("red"), PyColor("blue"), PyStr("red"), PyNone}

stroke_color_set(o) ==
    /\ focus = "stroke_color"
    /\ OpStep("set", "stroke_color", o, given,
              stroke_color_setter(given, c_resource[o]))

stroke_color_get(o) ==
    /\ focus = "stroke_color"
    /\ OpStep("get", "stroke_color", o, PyNone,
              stroke_color_getter(c_resource[o]))

\* Drawing.text_interline_spacing's setter; resolved tells whether
\* library.DrawSetTextInterlineSpacing is not None.
text_interline_spacing_setter(spacing, res, resolved) ==
    IF ~resolved THEN Raise("WandLibraryVersionError", <<>>)
    ELSE IF ~isinstance_Real(spacing) THEN Raise("TypeError", <<>>)
    ELSE IF resource_closed(res) THEN Raise("DestroyedResourceError", <<>>)
    ELSE Return(PyNone,
                <<Call("DrawSetTextInterlineSpacing", res, <<spacing[2]>>)>>)

\* A text_interline_spacing getter answering 0 when the entry point is
\* missing.
text_interline_spacing_getter_silent(res, resolved) ==
    IF ~resolved THEN Return(PyInt(0), <<>>)
    ELSE IF resource_closed(res) THEN Raise("DestroyedResourceError", <<>>)
    ELSE Return(PyInt(wand[res].text_interline_spacing),
                <<Call("DrawGetTextInterlineSpacing", res, <<>>)>>)

\* Drawing.text_interline_spacing's getter.
text_interline_spacing_getter(res, resolved) ==
    IF ~resolved THEN Raise("WandLibraryVersionError", <<>>)
    ELSE IF resource_closed(res) THEN Raise("DestroyedResourceError", <<>>)
    ELSE Return(PyInt(wand[res].text_interline_spacing),
                <<Call("DrawGetTextInterlineSpacing", res, <<>>)>>)

text_interline_spacing_set(o) ==
    /\ focus = "text_interline_spacing"
    /\ OpStep("set", "text_interline_spacing", o, given,
              text_interline_spacing_setter(given, c_resource[o],
                                            libInterline))

text_interline_spacing_get(o) ==
    /\ focus = "text_interline_spacing"
    /\ OpStep("get", "text_interline_spacing", o, PyNone,
              text_interline_spacing_getter(c_resource[o], libInterline))

\* ------------------------------------------------------------- rectangle
\* The extent taken for the end coordinate itself.
AxisEnd_absolute(start, end, extent) ==
    IF end = PyNone THEN extent[2] ELSE end[2]

\* Only a negative extent rejected, an end before its start let through.
AxisRejected_extent_only(start, end, extent) ==
    IF end = PyNone THEN extent[2] < 0 ELSE FALSE

\* The fourth coordinate of an axis given its start and either its end or
\* its extent, and whether the pair is rejected (end before start, negative
\* extent).
AxisEnd(start, end, extent) ==
    IF end = PyNone THEN start[2] + extent[2] ELSE end[2]
AxisRejected(start, end, extent) ==
    IF end = PyNone THEN extent[2] < 0 ELSE end[2] < start[2]

\* A rectangle that takes the end when both the end and the extent of an
\* axis are given.
rectangle_prefers_end(a, res, nativeOk) ==
    IF a.left = PyNone THEN Raise("TypeError", <<>>)
    ELSE IF a.top = PyNone THEN Raise("TypeError", <<>>)
    ELSE IF a.right = PyNone /\ a.width = PyNone THEN Raise("TypeError", <<>>)
    ELSE IF a.bottom = PyNone /\ a.height = PyNone
        THEN Raise("TypeError", <<>>)
    ELSE IF ~isinstance_Real(a.left) THEN Raise("TypeError", <<>>)
    ELSE IF ~isinstance_Real(a.top) THEN Raise("TypeError", <<>>)
    ELSE IF ~(a.right = PyNone \/ isinstance_Real(a.right))
        THEN Raise("TypeError", <<>>)
    ELSE IF ~(a.bottom = PyNone \/ isinstance_Real(a.bottom))
        THEN Raise("TypeError", <<>>)
    ELSE IF ~(a.width = PyNone \/ isinstance_Real(a.width))
        THEN Raise("TypeError", <<>>)
    ELSE IF ~(a.height = PyNone \/ isinstance_Real(a.height))
        THEN Raise("TypeError", <<>>)
    ELSE IF AxisRejected(a.left, a.right, a.width)
        THEN Raise("ValueError", <<>>)
    ELSE IF AxisRejected(a.top, a.bottom, a.height)
        THEN Raise("ValueError", <<>>)
    ELSE IF resource_closed(res) THEN Raise("DestroyedResourceError", <<>>)
    ELSE
        LET coords ==
                <<a.left[2], a.top[2], AxisEnd(a.left, a.right, a.width),
                  AxisEnd(a.top, a.bottom, a.height)>>
            draw ==
                IF nativeOk THEN Call("DrawRectangle", res, coords)
                ELSE FailedCall("DrawRectangle", res, coords)
            e == raise_exception(wand[res].exception \/ ~nativeOk, res)
        IN  IF e.raises THEN Raise("WandException", <<draw>> \o e.calls)
            ELSE Return(PyNone, <<draw>> \o e.calls)

\* Drawing.rectangle(left, top, right, bottom, width, height), the
\* arguments in record a; nativeOk tells whether the library carries out
\* DrawRectangle.
rectangle(a, res, nativeOk) ==
    IF a.left = PyNone THEN Raise("TypeError", <<>>)
    ELSE IF a.top = PyNone THEN Raise("TypeError", <<>>)
    ELSE IF a.right = PyNone /\ a.width = PyNone THEN Raise("TypeError", <<>>)
    ELSE IF a.bottom = PyNone /\ a.height = PyNone
        THEN Raise("TypeError", <<>>)
    ELSE IF ~(a.right = PyNone \/ a.width = PyNone)
        THEN Raise("TypeError", <<>>)
    ELSE IF ~(a.bottom = PyNone \/ a.height = PyNone)
        THEN Raise("TypeError", <<>>)
    ELSE IF ~isinstance_Real(a.left) THEN Raise("TypeError", <<>>)
    ELSE IF ~isinstance_Real(a.top) THEN Raise("TypeError", <<>>)
    ELSE IF ~(a.right = PyNone \/ isinstance_Real(a.right))
        THEN Raise("TypeError", <<>>)
    ELSE IF ~(a.bottom = PyNone \/ isinstance_Real(a.bottom))
        THEN Raise("TypeError", <<>>)
    ELSE IF ~(a.width = PyNone \/ isinstance_Real(a.width))
        THEN Raise("TypeError", <<>>)
    ELSE IF ~(a.height = PyNone \/ isinstance_Real(a.height))
        THEN Raise("TypeError", <<>>)
    ELSE IF AxisRejected(a.left, a.right, a.width)
        THEN Raise("ValueError", <<>>)
    ELSE IF AxisRejected(a.top, a.bottom, a.height)
        THEN Raise("ValueError", <<>>)
    ELSE IF resource_closed(res) THEN Raise("DestroyedResourceError", <<>>)
    ELSE
        LET coords ==
                <<a.left[2], a.top[2], AxisEnd(a.left, a.right, a.width),
                  AxisEnd(a.top, a.bottom, a.height)>>
            draw ==
                IF nativeOk THEN Call("DrawRectangle", res, coords)
                ELSE FailedCall("DrawRectangle", res, coords)
            e == raise_exception(wand[res].exception \/ ~nativeOk, res)
        IN  IF e.raises THEN Raise("WandException", <<draw>> \o e.calls)
            ELSE Return(PyNone, <<draw>> \o e.calls)

RectArg(l, t, r, b, w, h) ==
    [left |-> l, top |-> t, right |-> r, bottom |-> b, width |-> w,
     height |-> h]

\* An axis given by its end or by its extent.
AxisForms == {<<PyInt(n), PyNone>> : n \in Nums}
                \cup {<<PyNone, PyInt(n)>> : n \in Nums}

\* Calls whose four coordinates are all numbers, in each of the four forms.
RectNumeric ==
    {RectArg(PyInt(l), PyInt(t), x[1], y[1], x[2], y[2]) :
        l \in Nums, t \in Nums, x \in AxisForms, y \in AxisForms}

\* Calls with any of the six arguments given or left out.
RectGiven ==
    [left : {PyNone, PyInt(0)}, top : {PyNone, PyInt(0)},
     right : {PyNone, PyInt(1)}, bottom : {PyNone, PyInt(1)},
     width : {PyNone, PyInt(1)}, height : {PyNone, PyInt(1)}]

\* Calls in one of the four forms with arguments that are no numbers.
RectTyped ==
    {RectArg(l, t, x[1], y[1], x[2], y[2]) :
        l \in {PyInt(0), PyStr("x")}, t \in {PyInt(0), PyStr("x")},
        x \in {<<PyInt(1), PyNone>>, <<PyStr("x"), PyNone>>,
               <<PyNone, PyInt(1)>>, <<PyNone, PyStr("x")>>},
        y \in {<<PyInt(1), PyNone>>, <<PyStr("x"), PyNone>>,
               <<PyNone, PyInt(1)>>, <<PyNone, PyStr("x")>>}}

RectArgs == RectNumeric \cup RectGiven \cup RectTyped

rectangle_call(o, nativeOk) ==
    /\ focus = "rectangle"
    /\ OpStep("call", "rectangle", o, given,
              rectangle(given, c_resource[o], nativeOk))

\* ------------------------------------------------------------------ skew
\* Python's float(v): a number converts, a string that spells none raises
\* ValueError, None raises TypeError.  "" stands for no exception.
FloatRaises(v) ==
    CASE v[1] \in {"int", "float", "bool"} -> ""
      [] v[1] = "str" -> "ValueError"
      [] OTHER -> "TypeError"

\* Drawing.skew(x, y): DrawSkewX when x is given, then DrawSkewY when y is.
skew(x, y, res) ==
    LET first ==
            IF x = PyNone THEN Return(PyNone, <<>>)
            ELSE IF resource_closed(res)
                THEN Raise("DestroyedResourceError", <<>>)
            ELSE IF FloatRaises(x) # "" THEN Raise(FloatRaises(x), <<>>)
            ELSE Return(PyNone, <<Call("DrawSkewX", res, <<x[2]>>)>>)
    IN  IF first.outcome # "ok" THEN first
        ELSE IF y = PyNone THEN first
        ELSE IF resource_closed(res)
            THEN Raise("DestroyedResourceError", first.calls)
        ELSE IF FloatRaises(y) # "" THEN Raise(FloatRaises(y), first.calls)
        ELSE Return(PyNone, first.calls \o <<Call("DrawSkewY", res, <<y[2]>>)>>)

skew_call(o) ==
    /\ focus = "skew"
    /\ OpStep("call", "skew", o, given,
              skew(given[1], given[2], c_resource[o]))

\* ------------------------------------------- polygon, polyline, bezier
\* Points a list may hold.
MaxPoints == 2

\* ctypes.c_double(v): a number becomes a C double, anything else raises
\* TypeError.  "" stands for no exception.
c_double(v) ==
    IF isinstance_Real(v) THEN [raise |-> "", val |-> <<"double", v[2]>>]
    ELSE [raise |-> "TypeError", val |-> <<"double", 0>>]

\* The two coordinates of each point stored the other way round.
PointCell_swapped(points, double_index) ==
    LET tuple_index == double_index \div 2
        tuple_offset == 1 - (double_index % 2)
        point == points[2][tuple_index + 1]
    IN  IF point[1] \notin {"tuple", "list"}
        THEN [raise |-> "TypeError", val |-> <<"double", 0>>]
        ELSE IF tuple_offset >= Len(point[2])
            THEN [raise |-> "IndexError", val |-> <<"double", 0>>]
        ELSE c_double(point[2][tuple_offset + 1])

\* One pass of _list_to_point_info's loop: the double stored at
\* double_index, or the exception points[tuple_index][tuple_offset] or the
\* conversion raises.
PointCell(points, double_index) ==
    LET tuple_index == double_index \div 2
        tuple_offset == double_index % 2
        point == points[2][tuple_index + 1]
    IN  IF point[1] \notin {"tuple", "list"}
        THEN [raise |-> "TypeError", val |-> <<"double", 0>>]
        ELSE IF tuple_offset >= Len(point[2])
            THEN [raise |-> "IndexError", val |-> <<"double", 0>>]
        ELSE c_double(point[2][tuple_offset + 1])

\* _list_to_point_info(points): the reported length and the array of
\* doubles, or the first exception met.
\* _list_to_point_info that takes any sequence, a tuple included.
list_to_point_info_any_sequence(points) ==
    IF points[1] \notin {"list", "tuple"}
    THEN [raise |-> "TypeError", length |-> 0, array |-> <<>>]
    ELSE
        LET point_length == Len(points[2])
            point_info_size == point_length * 2
            cells == [k \in 1..point_info_size |-> PointCell(points, k - 1)]
            failed == {k \in 1..point_info_size : cells[k].raise # ""}
        IN  IF failed # {}
            THEN [raise |->
                    cells[CHOOSE k \in failed : \A j \in failed : k <= j].raise,
                  length |-> 0, array |-> <<>>]
            ELSE [raise |-> "", length |-> point_length,
                  array |-> [k \in 1..point_info_size |-> cells[k].val]]

list_to_point_info(points) ==
    IF ~isinstance_list(points)
    THEN [raise |-> "TypeError", length |-> 0, array |-> <<>>]
    ELSE
        LET point_length == Len(points[2])
            point_info_size == point_length * 2
            cells == [k \in 1..point_info_size |-> PointCell(points, k - 1)]
            failed == {k \in 1..point_info_size : cells[k].raise # ""}
        IN  IF failed # {}
            THEN [raise |->
                    cells[CHOOSE k \in failed : \A j \in failed : k <= j].raise,
                  length |-> 0, array |-> <<>>]
            ELSE [raise |-> "", length |-> point_length,
                  array |-> [k \in 1..point_info_size |-> cells[k].val]]

\* Drawing.polygon, polyline and bezier: the points are marshalled, then
\* passed in one call to entry point f.
PointsOp(f, points, res) ==
    LET info == list_to_point_info(points)
    IN  IF info.raise # "" THEN Raise(info.raise, <<>>)
        ELSE IF resource_closed(res)
            THEN Raise("DestroyedResourceError", <<>>)
        ELSE Return(PyNone, <<Call(f, res, <<info.length, info.array>>)>>)

polygon(points, res) == PointsOp("DrawPolygon", points, res)
polyline(points, res) == PointsOp("DrawPolyline", points, res)
bezier(points, res) == PointsOp("DrawBezier", points, res)

PointFocuses == {"polygon", "polyline", "bezier"}

RECURSIVE SeqsUpTo(_, _)
\* The sequences over S of length n or less.
SeqsUpTo(S, n) ==
    IF n = 0 THEN {<<>>}
    ELSE LET shorter == SeqsUpTo(S, n - 1)
         IN  shorter \cup {Append(s, x) : s \in shorter, x \in S}

\* Coordinate pairs and the lists of them.
Pairs == {PyTuple(<<PyInt(x), PyInt(y)>>) : x \in 0..MaxNum, y \in 0..MaxNum}
PairLists == {PyList(s) : s \in SeqsUpTo(Pairs, MaxPoints)}

\* Arguments that are no list of pairs of numbers: None, a tuple of pairs,
\* a list holding a number, a pair with a string, a 1-tuple, and a triple,
\* whose third element is dropped.
OddPoints ==
    {PyNone,
     PyTuple(<<PyTuple(<<PyInt(0), PyInt(1)>>)>>),
     PyList(<<PyInt(0)>>),
     PyList(<<PyTuple(<<PyInt(0), PyStr("x")>>)>>),
     PyList(<<PyTuple(<<PyInt(0), PyInt(1)>>), PyTuple(<<PyInt(1)>>)>>),
     PyList(<<PyTuple(<<PyInt(0), PyInt(1), PyInt(1)>>)>>)}

PointArgs == PairLists \cup OddPoints

polygon_call(o) ==
    /\ focus = "polygon"
    /\ OpStep("call", "polygon", o, given, polygon(given, c_resource[o]))

polyline_call(o) ==
    /\ focus = "polyline"
    /\ OpStep("call", "polyline", o, given, polyline(given, c_resource[o]))

bezier_call(o) ==
    /\ focus = "bezier"
    /\ OpStep("call", "bezier", o, given, bezier(given, c_resource[o]))

\* ---------------------------------------------------------- path operators
\* Python's `a, b = v`: the exception it raises, "" for none.
Unpack2(v) ==
    CASE v[1] \in {"tuple", "list"} ->
            IF Len(v[2]) = 2 THEN "" ELSE "ValueError"
      [] OTHER -> "TypeError"

\* The first exception of a sequence of conversions, "" when none raises.
FirstRaise(excs) ==
    IF \A i \in 1..Len(excs) : excs[i] = "" THEN ""
    ELSE excs[CHOOSE i \in 1..Len(excs) :
                /\ excs[i] # ""
                /\ \A j \in 1..(i - 1) : excs[j] = ""]

Values(vs) == [i \in 1..Len(vs) |-> vs[i][2]]

\* A path call that refuses every operator but path_start on a wand in
\* which no path was started.
PathCall_bracketed(self, f, res, vs) ==
    LET exc == FirstRaise([i \in 1..Len(vs) |-> FloatRaises(vs[i])])
    IN  IF resource_closed(res) THEN Raise("DestroyedResourceError", <<>>)
        ELSE IF exc # "" THEN Raise(exc, <<>>)
        ELSE IF /\ f # "DrawPathStart"
                /\ \A i \in 1..Len(wand[res].ops) :
                        wand[res].ops[i] # "DrawPathStart"
            THEN Raise("WandException", <<>>)
        ELSE Return(PyDrawing(self), <<Call(f, res, Values(vs))>>)

\* library.f(self.resource, float(v1), ..., float(vn)) followed by
\* `return self`: self.resource is read first, then each conversion is made,
\* then the call.
PathCall(self, f, res, vs) ==
    LET exc == FirstRaise([i \in 1..Len(vs) |-> FloatRaises(vs[i])])
    IN  IF resource_closed(res) THEN Raise("DestroyedResourceError", <<>>)
        ELSE IF exc # "" THEN Raise(exc, <<>>)
        ELSE Return(PyDrawing(self), <<Call(f, res, Values(vs))>>)

\* The same without conversions: the values are handed to the call as
\* they are.
PathCallRaw(self, f, res, vs) ==
    IF resource_closed(res) THEN Raise("DestroyedResourceError", <<>>)
    ELSE Return(PyDrawing(self), <<Call(f, res, Values(vs))>>)

path_start(self, res) == PathCall(self, "DrawPathStart", res, <<>>)
path_finish(self, res) == PathCall(self, "DrawPathFinish", res, <<>>)
path_close(self, res) == PathCall(self, "DrawPathClose", res, <<>>)

path_move(self, to, relative, res) ==
    IF to = PyNone THEN Raise("TypeError", <<>>)
    ELSE IF Unpack2(to) # "" THEN Raise(Unpack2(to), <<>>)
    ELSE PathCall(self,
                  IF Truthy(relative) THEN "DrawPathMoveToRelative"
                  ELSE "DrawPathMoveToAbsolute",
                  res, to[2])

path_line(self, to, relative, res) ==
    IF to = PyNone THEN Raise("TypeError", <<>>)
    ELSE IF Unpack2(to) # "" THEN Raise(Unpack2(to), <<>>)
    ELSE PathCall(self,
                  IF Truthy(relative) THEN "DrawPathLineToRelative"
                  ELSE "DrawPathLineToAbsolute",
                  res, to[2])

path_horizontal_line(self, x, relative, res) ==
    IF x = PyNone THEN Raise("TypeError", <<>>)
    ELSE PathCall(self,
                  IF Truthy(relative) THEN "DrawPathLineToHorizontalRelative"
                  ELSE "DrawPathLineToHorizontalAbsolute",
                  res, <<x>>)

path_vertical_line(self, y, relative, res) ==
    IF y = PyNone THEN Raise("TypeError", <<>>)
    ELSE PathCall(self,
                  IF Truthy(relative) THEN "DrawPathLineToVerticalRelative"
                  ELSE "DrawPathLineToVerticalAbsolute",
                  res, <<y>>)

\* A result that returned normally, its value dropped.
WithoutReturnValue(r) == IF r.outcome = "ok" THEN [r EXCEPT !.ret = PyNone] ELSE r

\* path_curve whose smooth branch falls off the end without `return self`.
path_curve_falls_off(self, to, controls, smooth, relative, res) ==
    IF to = PyNone THEN Raise("TypeError", <<>>)
    ELSE IF controls = PyNone THEN Raise("TypeError", <<>>)
    ELSE IF Unpack2(to) # "" THEN Raise(Unpack2(to), <<>>)
    ELSE IF Truthy(smooth)
    THEN
        IF Unpack2(controls) # "" THEN Raise(Unpack2(controls), <<>>)
        ELSE WithoutReturnValue(PathCallRaw(self,
                         IF Truthy(relative)
                         THEN "DrawPathCurveToSmoothRelative"
                         ELSE "DrawPathCurveToSmoothAbsolute",
                         res, controls[2] \o to[2]))
    ELSE
        LET exc ==
                IF Unpack2(controls) # "" THEN Unpack2(controls)
                ELSE FirstRaise(<<Unpack2(controls[2][1]),
                                  Unpack2(controls[2][2])>>)
        IN  IF exc # "" THEN Raise(exc, <<>>)
            ELSE PathCallRaw(self,
                             IF Truthy(relative)
                             THEN "DrawPathCurveToRelative"
                             ELSE "DrawPathCurveToAbsolute",
                             res,
                             controls[2][1][2] \o controls[2][2][2] \o to[2])

\* Drawing.path_curve(to, controls, smooth, relative)
path_curve(self, to, controls, smooth, relative, res) ==
    IF to = PyNone THEN Raise("TypeError", <<>>)
    ELSE IF controls = PyNone THEN Raise("TypeError", <<>>)
    ELSE IF Unpack2(to) # "" THEN Raise(Unpack2(to), <<>>)
    ELSE IF Truthy(smooth)
    THEN
        IF Unpack2(controls) # "" THEN Raise(Unpack2(controls), <<>>)
        ELSE PathCallRaw(self,
                         IF Truthy(relative)
                         THEN "DrawPathCurveToSmoothRelative"
                         ELSE "DrawPathCurveToSmoothAbsolute",
                         res, controls[2] \o to[2])
    ELSE
        LET exc ==
                IF Unpack2(controls) # "" THEN Unpack2(controls)
                ELSE FirstRaise(<<Unpack2(controls[2][1]),
                                  Unpack2(controls[2][2])>>)
        IN  IF exc # "" THEN Raise(exc, <<>>)
            ELSE PathCallRaw(self,
                             IF Truthy(relative)
                             THEN "DrawPathCurveToRelative"
                             ELSE "DrawPathCurveToAbsolute",
                             res,
                             controls[2][1][2] \o controls[2][2][2] \o to[2])

\* Drawing.path_curve_to_quadratic_bezier(to, control, smooth, relative)
path_curve_to_quadratic_bezier(self, to, control, smooth, relative, res) ==
    IF to = PyNone THEN Raise("TypeError", <<>>)
    ELSE IF Unpack2(to) # "" THEN Raise(Unpack2(to), <<>>)
    ELSE IF Truthy(smooth)
    THEN PathCall(self,
                  IF Truthy(relative)
                  THEN "DrawPathCurveToQuadraticBezierSmoothRelative"
                  ELSE "DrawPathCurveToQuadraticBezierSmoothAbsolute",
                  res, to[2])
    ELSE IF control = PyNone THEN Raise("TypeError", <<>>)
    ELSE IF Unpack2(control) # "" THEN Raise(Unpack2(control), <<>>)
    ELSE PathCall(self,
                  IF Truthy(relative)
                  THEN "DrawPathCurveToQuadraticBezierRelative"
                  ELSE "DrawPathCurveToQuadraticBezierAbsolute",
                  res, control[2] \o to[2])

\* bool(v) handed to a call: every value converts.
BoolOf(v) == PyBool(Truthy(v))

\* Drawing.path_elliptic_arc(to, radius, rotation, large_arc, clockwise,
\* relative); a names the six arguments.
path_elliptic_arc(self, a, res) ==
    IF a.to = PyNone THEN Raise("TypeError", <<>>)
    ELSE IF a.radius = PyNone THEN Raise("TypeError", <<>>)
    ELSE IF Unpack2(a.to) # "" THEN Raise(Unpack2(a.to), <<>>)
    ELSE IF Unpack2(a.radius) # "" THEN Raise(Unpack2(a.radius), <<>>)
    ELSE PathCall(self,
                  IF Truthy(a.relative) THEN "DrawPathEllipticArcRelative"
                  ELSE "DrawPathEllipticArcAbsolute",
                  res,
                  a.radius[2] \o <<a.rotation, BoolOf(a.large_arc),
                                   BoolOf(a.clockwise)>> \o a.to[2])

PathFocuses ==
    {"path_start", "path_finish", "path_close", "path_move", "path_line",
     "path_horizontal_line", "path_vertical_line", "path_curve",
     "path_curve_to_quadratic_bezier", "path_elliptic_arc"}

\* The arguments the path operators are called with: a point is absent, a
\* pair of numbers, a pair holding a string, a 1-tuple or a number.
Flags == {PyBool(b) : b \in BOOLEAN}
NumPair == PyTuple(<<PyInt(0), PyInt(1)>>)
PairOfPairs == PyTuple(<<NumPair, PyTuple(<<PyInt(1), PyInt(0)>>)>>)
NumPoints == {PyNone, NumPair, PyTuple(<<PyInt(1)>>), PyInt(0)}
PathPoints == NumPoints \cup {PyTuple(<<PyInt(1), PyStr("x")>>)}

\* path_curve hands its coordinates to the call unconverted, so the
\* coordinates it is given here are numbers.
CurveArgs ==
    {a \in [to : {PyNone, NumPair, PyInt(0)},
            controls : NumPoints \cup {PairOfPairs},
            smooth : Flags, relative : Flags] :
        Truthy(a.smooth) => a.controls # PairOfPairs}

PathArgs(f) ==
    CASE f \in {"path_start", "path_finish", "path_close"} -> {PyNone}
      [] f \in {"path_move", "path_line"} ->
            [to : PathPoints, relative : Flags]
      [] f = "path_horizontal_line" -> [x : NumArgs, relative : Flags]
      [] f = "path_vertical_line" -> [y : NumArgs, relative : Flags]
      [] f = "path_curve" -> CurveArgs
      [] f = "path_curve_to_quadratic_bezier" ->
            [to : {PyNone, NumPair, PyTuple(<<PyInt(1)>>)},
             control : PathPoints, smooth : Flags, relative : Flags]
      [] f = "path_elliptic_arc" ->
            [to : {PyNone, NumPair}, radius : PathPoints,
             rotation : {PyInt(0), PyStr("x")},
             large_arc : {PyBool(TRUE), PyInt(0)},
             clockwise : {PyBool(FALSE), PyInt(1)}, relative : Flags]

path_start_call(o) ==
    /\ focus = "path_start"
    /\ OpStep("call", "path_start", o, given, path_start(o, c_resource[o]))

path_finish_call(o) ==
    /\ focus = "path_finish"
    /\ OpStep("call", "path_finish", o, given, path_finish(o, c_resource[o]))

path_close_call(o) ==
    /\ focus = "path_close"
    /\ OpStep("call", "path_close", o, given, path_close(o, c_resource[o]))

path_move_call(o) ==
    /\ focus = "path_move"
    /\ OpStep("call", "path_move", o, given,
              path_move(o, given.to, given.relative, c_resource[o]))

path_line_call(o) ==
    /\ focus = "path_line"
    /\ OpStep("call", "path_line", o, given,
              path_line(o, given.to, given.relative, c_resource[o]))

path_horizontal_line_call(o) ==
    /\ focus = "path_horizontal_line"
    /\ OpStep("call", "path_horizontal_line", o, given,
              path_horizontal_line(o, given.x, given.relative, c_resource[o]))

path_vertical_line_call(o) ==
    /\ focus = "path_vertical_line"
    /\ OpStep("call", "path_vertical_line", o, given,
              path_vertical_line(o, given.y, given.relative, c_resource[o]))

path_curve_call(o) ==
    /\ focus = "path_curve"
    /\ OpStep("call", "path_curve", o, given,
              path_curve(o, given.to, given.controls, given.smooth,
                  given.relative, c_resource[o]))

path_curve_to_quadratic_bezier_call(o) ==
    /\ focus = "path_curve_to_quadratic_bezier"
    /\ OpStep("call", "path_curve_to_quadratic_bezier", o, given,
              path_curve_to_quadratic_bezier(o, given.to, given.control, given.smooth,
                  given.relative, c_resource[o]))

path_elliptic_arc_call(o) ==
    /\ focus = "path_elliptic_arc"
    /\ OpStep("call", "path_elliptic_arc", o, given,
              path_elliptic_arc(o, given, c_resource[o]))

\* Path operators one after another on one Drawing.
MaxPathOps == 2

\* The arguments each path operator accepts.
ValidPathArgs(f) ==
    CASE f \in {"path_start", "path_finish", "path_close"} -> {PyNone}
      [] f \in {"path_move", "path_line"} -> [to : {NumPair}, relative : Flags]
      [] f = "path_horizontal_line" -> [x : {PyInt(1)}, relative : Flags]
      [] f = "path_vertical_line" -> [y : {PyInt(1)}, relative : Flags]
      [] f = "path_curve" ->
            {a \in [to : {NumPair}, controls : {NumPair, PairOfPairs},
                    smooth : Flags, relative : Flags] :
                Truthy(a.smooth) <=> a.controls = NumPair}
      [] f = "path_curve_to_quadratic_bezier" ->
            [to : {NumPair}, control : {NumPair}, smooth : Flags,
             relative : Flags]
      [] f = "path_elliptic_arc" ->
            [to : {NumPair}, radius : {NumPair}, rotation : {PyInt(0)},
             large_arc : {PyBool(TRUE)}, clockwise : {PyBool(FALSE)},
             relative : Flags]

\* drawing.<f>(**a)
PathOperator(f, self, a, res) ==
    CASE f = "path_start" -> path_start(self, res)
      [] f = "path_finish" -> path_finish(self, res)
      [] f = "path_close" -> path_close(self, res)
      [] f = "path_move" -> path_move(self, a.to, a.relative, res)
      [] f = "path_line" -> path_line(self, a.to, a.relative, res)
      [] f = "path_horizontal_line" ->
            path_horizontal_line(self, a.x, a.relative, res)
      [] f = "path_vertical_line" ->
            path_vertical_line(self, a.y, a.relative, res)
      [] f = "path_curve" ->
            path_curve(self, a.to, a.controls, a.smooth, a.relative, res)
      [] f = "path_curve_to_quadratic_bezier" ->
            path_curve_to_quadratic_bezier(self, a.to, a.control, a.smooth,
                                           a.relative, res)
      [] f = "path_elliptic_arc" -> path_elliptic_arc(self, a, res)

\* One path operator called with valid arguments, whatever was called
\* before it.
path_operator_call(o, f) ==
    /\ focus = "path_sequence"
    /\ exists[o]
    /\ \E a \in ValidPathArgs(f) :
        LET r == PathOperator(f, o, a, c_resource[o])
        IN  /\ \A h \in Handles :
                    Len(wand[h].ops) + Appends(r.calls, h) <= MaxPathOps
            /\ wand' = ApplyCalls(wand, r.calls)
            /\ last' =
                [kind |-> "call", op |-> f, obj |-> o, arg |-> a,
                 outcome |-> r.outcome, ret |-> r.ret, calls |-> r.calls]
    /\ UNCHANGED <<focus, given, libInterline, exists, c_resource, acquired,
                   clonedFrom, scope, nextHandle, live, destroyCalls>>

\* --------------------------------------------------------- shape operations
PAINT_METHOD_TYPES ==
    <<"undefined", "point", "replace", "floodfill", "filltoborder", "reset">>

\* int(v): the exception it raises, "" for none.
IntRaises(v) ==
    CASE v[1] \in {"int", "float", "bool"} -> ""
      [] v[1] = "str" -> "ValueError"
      [] OTHER -> "TypeError"

\* library.f(self.resource, conv(v1), ..., conv(vn)): self.resource is read
\* first, then each conversion is made, then the call; nothing is returned.
ShapeCall(f, res, conv, vs) ==
    LET exc ==
            FirstRaise([i \in 1..Len(vs) |->
                IF conv = "int" THEN IntRaises(vs[i])
                ELSE FloatRaises(vs[i])])
    IN  IF resource_closed(res) THEN Raise("DestroyedResourceError", <<>>)
        ELSE IF exc # "" THEN Raise(exc, <<>>)
        ELSE Return(PyNone, <<Call(f, res, Values(vs))>>)

\* Drawing.point(x, y)
point(x, y, res) == ShapeCall("DrawPoint", res, "float", <<x, y>>)

\* Drawing.line(start, end)
line(start, end, res) ==
    IF Unpack2(start) # "" THEN Raise(Unpack2(start), <<>>)
    ELSE IF Unpack2(end) # "" THEN Raise(Unpack2(end), <<>>)
    ELSE ShapeCall("DrawLine", res, "int", start[2] \o end[2])

\* Drawing.circle(origin, perimeter)
circle(origin, perimeter, res) ==
    IF Unpack2(origin) # "" THEN Raise(Unpack2(origin), <<>>)
    ELSE IF Unpack2(perimeter) # "" THEN Raise(Unpack2(perimeter), <<>>)
    ELSE ShapeCall("DrawCircle", res, "float", origin[2] \o perimeter[2])

\* Drawing.ellipse(origin, radius, rotation)
ellipse(origin, radius, rotation, res) ==
    IF Unpack2(origin) # "" THEN Raise(Unpack2(origin), <<>>)
    ELSE IF Unpack2(radius) # "" THEN Raise(Unpack2(radius), <<>>)
    ELSE IF Unpack2(rotation) # "" THEN Raise(Unpack2(rotation), <<>>)
    ELSE ShapeCall("DrawEllipse", res, "float", origin[2] \o radius[2] \o rotation[2])

\* Drawing.arc(start, end, degree)
arc(start, end, degree, res) ==
    IF Unpack2(start) # "" THEN Raise(Unpack2(start), <<>>)
    ELSE IF Unpack2(end) # "" THEN Raise(Unpack2(end), <<>>)
    ELSE IF Unpack2(degree) # "" THEN Raise(Unpack2(degree), <<>>)
    ELSE ShapeCall("DrawArc", res, "float", start[2] \o end[2] \o degree[2])

\* Drawing.color(x, y, paint_method)
color(x, y, paint_method, res) ==
    IF x = PyNone \/ y = PyNone THEN Raise("TypeError", <<>>)
    ELSE IF ~isinstance_string_type(paint_method)
        THEN Raise("TypeError", <<>>)
    ELSE IF ~InTuple(paint_method, PAINT_METHOD_TYPES)
        THEN Raise("ValueError", <<>>)
    ELSE IF resource_closed(res) THEN Raise("DestroyedResourceError", <<>>)
    ELSE IF FloatRaises(x) # "" THEN Raise(FloatRaises(x), <<>>)
    ELSE IF FloatRaises(y) # "" THEN Raise(FloatRaises(y), <<>>)
    ELSE Return(PyNone,
                <<Call("DrawColor", res,
                       <<x[2], y[2],
                         TupleIndex(PAINT_METHOD_TYPES, paint_method[2])>>)>>)

\* Drawing.matte(x, y, paint_method)
matte(x, y, paint_method, res) ==
    IF x = PyNone \/ y = PyNone THEN Raise("TypeError", <<>>)
    ELSE IF ~isinstance_string_type(paint_method)
        THEN Raise("TypeError", <<>>)
    ELSE IF ~InTuple(paint_method, PAINT_METHOD_TYPES)
        THEN Raise("ValueError", <<>>)
    ELSE IF resource_closed(res) THEN Raise("DestroyedResourceError", <<>>)
    ELSE IF FloatRaises(x) # "" THEN Raise(FloatRaises(x), <<>>)
    ELSE IF FloatRaises(y) # "" THEN Raise(FloatRaises(y), <<>>)
    ELSE Return(PyNone,
                <<Call("DrawMatte", res,
                       <<x[2], y[2],
                         TupleIndex(PAINT_METHOD_TYPES, paint_method[2])>>)>>)

\* The encodings str.encode knows.
Codecs == {"UTF-8", "latin-1"}

\* The texts of the model and their code points; Eacute names the
\* one-character text U+00E9.
Eacute == "e-acute"
CodePoints(s) ==
    CASE s = "" -> <<>>
      [] s = "a" -> <<97>>
      [] s = Eacute -> <<233>>

\* One code point as the codec writes it: UTF-8 takes two bytes from 128
\* on, latin-1 one byte.
EncodePoint(c, codec) ==
    IF c < 128 \/ codec = "latin-1" THEN <<c>>
    ELSE <<192 + (c \div 64), 128 + (c % 64)>>

\* str.encode(codec) for a codec str.encode knows.
encode(s, codec) ==
    LET points == CodePoints(s)
    IN  <<"bytes",
          IF points = <<>> THEN <<>> ELSE EncodePoint(points[1], codec)>>

\* compat.binary(text): the text in the default encoding.
binary(s) == encode(s, "UTF-8")

\* The test text() makes of x and of y, `not isinstance(v, Integral) or
\* v < 0`: ValueError for a negative number, TypeError for anything else
\* that is not an integer.  "" stands for no exception.
NaturalRaises(v) ==
    IF isinstance_Integral(v) /\ v[2] >= 0 THEN ""
    ELSE IF isinstance_Real(v) /\ v[2] < 0 THEN "ValueError"
    ELSE "TypeError"

\* What a font-metrics query answers: a pointer to 13 doubles, indexed from
\* 0 as the C array is, or the null pointer.
NullPointer == <<"NULL">>
MetricsArrays ==
    {<<"double*", [i \in 0..12 |-> i + 1]>>,
     <<"double*", [i \in 0..12 |-> 12 - i]>>}

FONT_METRICS_ATTRIBUTES ==
    <<"character_width", "character_height", "ascender", "descender",
      "text_width", "text_height", "maximum_horizontal_advance",
      "x1", "y1", "x2", "y2", "x", "y">>

\* FontMetrics(*args): the namedtuple over FONT_METRICS_ATTRIBUTES.
FontMetrics(args) ==
    <<"FontMetrics",
      [n \in {FONT_METRICS_ATTRIBUTES[i] : i \in 1..13} |->
            args[CHOOSE i \in 1..13 : FONT_METRICS_ATTRIBUTES[i] = n]]>>

\* get_font_metrics that always asks the single-line entry point.
get_font_metrics_single_line(image, txt, multiline, res, result) ==
    IF ~isinstance_Image(image) THEN Raise("TypeError", <<>>)
    ELSE IF ~isinstance_string_type(txt) THEN Raise("TypeError", <<>>)
    ELSE IF resource_closed(res) THEN Raise("DestroyedResourceError", <<>>)
    ELSE
        LET held == wand[res].prop["text_encoding"]
            read == Call("DrawGetTextEncoding", res, <<>>)
            reads == IF held = "" THEN <<read>> ELSE <<read, read>>
            bytes == IF held = "" THEN binary(txt[2])
                     ELSE encode(txt[2], held)
            a == <<image[2], res, bytes>>
        IN  IF held # "" /\ held \notin Codecs
            THEN Raise("LookupError", reads)
            ELSE IF result = NullPointer
            THEN Raise("ValueError",
                       reads \o <<FailedCall("MagickQueryFontMetrics", NULL,
                                             a)>>)
            ELSE Return(FontMetrics([i \in 1..13 |-> result[2][i - 1]]),
                        reads \o <<Call("MagickQueryFontMetrics", NULL, a)>>)

\* get_font_metrics that settles on 'UTF-8' as text() does when no encoding
\* is set.
get_font_metrics_choosing(image, txt, multiline, res, result) ==
    IF ~isinstance_Image(image) THEN Raise("TypeError", <<>>)
    ELSE IF ~isinstance_string_type(txt) THEN Raise("TypeError", <<>>)
    ELSE IF resource_closed(res) THEN Raise("DestroyedResourceError", <<>>)
    ELSE
        LET font_metrics_f ==
                IF Truthy(multiline) THEN "MagickQueryMultilineFontMetrics"
                ELSE "MagickQueryFontMetrics"
            held == wand[res].prop["text_encoding"]
            read == Call("DrawGetTextEncoding", res, <<>>)
            reads ==
                IF held = ""
                THEN <<read, Call("DrawSetTextEncoding", res, <<"UTF-8">>)>>
                ELSE <<read, read>>
            bytes == IF held = "" THEN binary(txt[2])
                     ELSE encode(txt[2], held)
            a == <<image[2], res, bytes>>
        IN  IF held # "" /\ held \notin Codecs
            THEN Raise("LookupError", reads)
            ELSE IF result = NullPointer
            THEN Raise("ValueError",
                       reads \o <<FailedCall(font_metrics_f, NULL, a)>>)
            ELSE Return(FontMetrics([i \in 1..13 |-> result[2][i - 1]]),
                        reads \o <<Call(font_metrics_f, NULL, a)>>)

\* Drawing.get_font_metrics(image, text, multiline): the text encoding is
\* read once, and once more to encode with it when one is set; result is
\* what the query answers, NULL when it fails, and indexing NULL raises
\* ValueError.
get_font_metrics(image, txt, multiline, res, result) ==
    IF ~isinstance_Image(image) THEN Raise("TypeError", <<>>)
    ELSE IF ~isinstance_string_type(txt) THEN Raise("TypeError", <<>>)
    ELSE IF resource_closed(res) THEN Raise("DestroyedResourceError", <<>>)
    ELSE
        LET font_metrics_f ==
                IF Truthy(multiline) THEN "MagickQueryMultilineFontMetrics"
                ELSE "MagickQueryFontMetrics"
            held == wand[res].prop["text_encoding"]
            read == Call("DrawGetTextEncoding", res, <<>>)
            reads == IF held = "" THEN <<read>> ELSE <<read, read>>
            bytes == IF held = "" THEN binary(txt[2])
                     ELSE encode(txt[2], held)
            a == <<image[2], res, bytes>>
        IN  IF held # "" /\ held \notin Codecs
            THEN Raise("LookupError", reads)
            ELSE IF result = NullPointer
            THEN Raise("ValueError",
                       reads \o <<FailedCall(font_metrics_f, NULL, a)>>)
            ELSE Return(FontMetrics([i \in 1..13 |-> result[2][i - 1]]),
                        reads \o <<Call(font_metrics_f, NULL, a)>>)

\* text() that sets the encoding to 'UTF-8' whatever encoding is held.
Drawing_text_always_utf8(x, y, body, res) ==
    IF NaturalRaises(x) # "" THEN Raise(NaturalRaises(x), <<>>)
    ELSE IF NaturalRaises(y) # "" THEN Raise(NaturalRaises(y), <<>>)
    ELSE IF ~isinstance_string_type(body) THEN Raise("TypeError", <<>>)
    ELSE IF ~Truthy(body) THEN Raise("ValueError", <<>>)
    ELSE IF resource_closed(res) THEN Raise("DestroyedResourceError", <<>>)
    ELSE Return(PyNone,
                <<Call("DrawGetTextEncoding", res, <<>>),
                  Call("DrawSetTextEncoding", res, <<"UTF-8">>),
                  Call("DrawGetTextEncoding", res, <<>>),
                  Call("DrawAnnotation", res,
                       <<x[2], y[2], encode(body[2], "UTF-8")>>)>>)

\* Drawing.text(x, y, body) for a text-string body: the encoding is read,
\* set to 'UTF-8' when none is set, and read again to encode the body.
Drawing_text(x, y, body, res) ==
    IF NaturalRaises(x) # "" THEN Raise(NaturalRaises(x), <<>>)
    ELSE IF NaturalRaises(y) # "" THEN Raise(NaturalRaises(y), <<>>)
    ELSE IF ~isinstance_string_type(body) THEN Raise("TypeError", <<>>)
    ELSE IF ~Truthy(body) THEN Raise("ValueError", <<>>)
    ELSE IF resource_closed(res) THEN Raise("DestroyedResourceError", <<>>)
    ELSE
        LET held == wand[res].prop["text_encoding"]
            read == Call("DrawGetTextEncoding", res, <<>>)
            chosen ==
                IF held = ""
                THEN <<Call("DrawSetTextEncoding", res, <<"UTF-8">>)>>
                ELSE <<>>
            encoding == IF held = "" THEN "UTF-8" ELSE held
            before == <<read>> \o chosen \o <<read>>
        IN  IF encoding \notin Codecs THEN Raise("LookupError", before)
            ELSE Return(PyNone,
                        before \o
                            <<Call("DrawAnnotation", res,
                                   <<x[2], y[2],
                                     encode(body[2], encoding)>>)>>)

\* Drawing.text_encoding setter
text_encoding_setter(encoding, res) ==
    IF encoding # PyNone /\ ~isinstance_string_type(encoding)
    THEN Raise("TypeError", <<>>)
    ELSE IF resource_closed(res) THEN Raise("DestroyedResourceError", <<>>)
    ELSE Return(PyNone,
                <<Call("DrawSetTextEncoding", res,
                       <<IF encoding = PyNone THEN "" ELSE encoding[2]>>)>>)

ShapeFocuses ==
    {"line", "circle", "ellipse", "arc", "rectangle", "point", "color",
     "matte", "text"} \cup PointFocuses

PaintArgs ==
    [x : NumArgs, y : {PyInt(0), PyNone},
     paint_method : {PyStr("point"), PyStr("bogus"), PyInt(0)}]

ShapeArgs(f) ==
    CASE f = "line" -> [start : PathPoints, end : {NumPair, PyNone}]
      [] f = "circle" -> [origin : PathPoints, perimeter : {NumPair, PyNone}]
      [] f = "ellipse" ->
            [origin : {NumPair, PyInt(0)}, radius : PathPoints,
             rotation : {NumPair, PyTuple(<<PyInt(1)>>)}]
      [] f = "arc" ->
            [start : {NumPair, PyInt(0)}, end : PathPoints,
             degree : {NumPair, PyTuple(<<PyInt(1)>>)}]
      [] f = "point" -> [x : NumArgs, y : NumArgs]
      [] f \in {"color", "matte"} -> PaintArgs
      [] f = "text" ->
            [x : {PyInt(0), PyInt(-1), PyFloat(-1), PyStr("x")},
             y : {PyInt(1), PyNone},
             body : {PyStr("a"), PyStr(Eacute), PyStr(""), PyInt(0)},
             encoding : {PyStr("latin-1"), PyStr("x")}]
      [] f = "get_font_metrics" ->
            [image : {PyImage(1), PyNone},
             text : {PyStr("a"), PyStr(Eacute), PyInt(0)},
             multiline : {PyBool(TRUE), PyBool(FALSE)},
             result : MetricsArrays \cup {NullPointer},
             encoding : {PyStr("latin-1"), PyStr("UTF-8"), PyStr("x")}]

line_call(o) ==
    /\ focus = "line"
    /\ OpStep("call", "line", o, given,
              line(given.start, given.end, c_resource[o]))

circle_call(o) ==
    /\ focus = "circle"
    /\ OpStep("call", "circle", o, given,
              circle(given.origin, given.perimeter, c_resource[o]))

ellipse_call(o) ==
    /\ focus = "ellipse"
    /\ OpStep("call", "ellipse", o, given,
              ellipse(given.origin, given.radius, given.rotation,
                      c_resource[o]))

arc_call(o) ==
    /\ focus = "arc"
    /\ OpStep("call", "arc", o, given,
              arc(given.start, given.end, given.degree, c_resource[o]))

point_call(o) ==
    /\ focus = "point"
    /\ OpStep("call", "point", o, given,
              point(given.x, given.y, c_resource[o]))

color_call(o) ==
    /\ focus = "color"
    /\ OpStep("call", "color", o, given,
              color(given.x, given.y, given.paint_method, c_resource[o]))

matte_call(o) ==
    /\ focus = "matte"
    /\ OpStep("call", "matte", o, given,
              matte(given.x, given.y, given.paint_method, c_resource[o]))

text_call(o) ==
    /\ focus = "text"
    /\ OpStep("call", "text", o, given,
              Drawing_text(given.x, given.y, given.body, c_resource[o]))

get_font_metrics_call(o) ==
    /\ focus = "get_font_metrics"
    /\ OpStep("call", "get_font_metrics", o, given,
              get_font_metrics(given.image, given.text, given.multiline,
                               c_resource[o], given.result))

\* drawing.text_encoding = ... ahead of a text() or get_font_metrics() call
text_encoding_chosen(o) ==
    /\ focus \in {"text", "get_font_metrics"}
    /\ OpStep("set", "text_encoding", o, given.encoding,
              text_encoding_setter(given.encoding, c_resource[o]))

\* ------------------------------------------------------- plain properties
\* fill_opacity, stroke_opacity, text_kerning, text_interword_spacing setters
real_setter(p, v, res) ==
    IF ~isinstance_Real(v) THEN Raise("TypeError", <<>>)
    ELSE IF resource_closed(res) THEN Raise("DestroyedResourceError", <<>>)
    ELSE Return(PyNone, <<Call(PlainSetter(p), res, <<v[2]>>)>>)

\* stroke_antialias, text_antialias setters: bool(value) is handed over.
flag_setter(p, v, res) ==
    IF resource_closed(res) THEN Raise("DestroyedResourceError", <<>>)
    ELSE Return(PyNone,
                <<Call(PlainSetter(p), res,
                       <<IF Truthy(v) THEN 1 ELSE 0>>)>>)

\* Drawing.font setter: okay is the status DrawSetFont returns, which the
\* setter does not look at.
font_setter(font, res, okay) ==
    IF ~isinstance_string_type(font) THEN Raise("TypeError", <<>>)
    ELSE IF resource_closed(res) THEN Raise("DestroyedResourceError", <<>>)
    ELSE Return(PyNone,
                <<IF okay THEN Call("DrawSetFont", res, <<font[2]>>)
                  ELSE FailedCall("DrawSetFont", res, <<font[2]>>)>>)

\* clip_path setter that asks nothing of the native call's verdict.
clip_path_setter_trusting(path, res, okay) ==
    IF ~isinstance_string_type(path) THEN Raise("TypeError", <<>>)
    ELSE IF resource_closed(res) THEN Raise("DestroyedResourceError", <<>>)
    ELSE Return(PyNone,
                <<IF okay THEN Call("DrawSetClipPath", res, <<path[2]>>)
                  ELSE FailedCall("DrawSetClipPath", res, <<path[2]>>)>>)

\* Drawing.clip_path setter: whether the path is understood is the native
\* call's verdict, okay.
clip_path_setter(path, res, okay) ==
    IF ~isinstance_string_type(path) THEN Raise("TypeError", <<>>)
    ELSE IF resource_closed(res) THEN Raise("DestroyedResourceError", <<>>)
    ELSE IF okay
        THEN Return(PyNone, <<Call("DrawSetClipPath", res, <<path[2]>>)>>)
    ELSE Raise("ValueError", <<FailedCall("DrawSetClipPath", res, <<path[2]>>)>>)

\* fill_color, text_under_color setters
paint_setter(p, paint, res) ==
    IF ~isinstance_Color(paint) THEN Raise("TypeError", <<>>)
    ELSE IF resource_closed(res) THEN Raise("DestroyedResourceError", <<>>)
    ELSE Return(PyNone, <<Call(PlainSetter(p), res, <<paint[2]>>)>>)

\* Drawing.stroke_miter_limit setter
stroke_miter_limit_setter(miter_limit, res) ==
    IF ~isinstance_Integral(miter_limit) THEN Raise("TypeError", <<>>)
    ELSE IF resource_closed(res) THEN Raise("DestroyedResourceError", <<>>)
    ELSE Return(PyNone,
                <<Call("DrawSetStrokeMiterLimit", res, <<miter_limit[2]>>)>>)

\* Drawing.stroke_dash_offset setter
stroke_dash_offset_setter(offset, res) ==
    IF resource_closed(res) THEN Raise("DestroyedResourceError", <<>>)
    ELSE IF FloatRaises(offset) # "" THEN Raise(FloatRaises(offset), <<>>)
    ELSE Return(PyNone,
                <<Call("DrawSetStrokeDashOffset", res, <<offset[2]>>)>>)

\* len(v): the exception it raises, "" for none.
LenRaises(v) ==
    IF v[1] \in {"tuple", "list", "str"} THEN "" ELSE "TypeError"

\* (c_double * n)(*v): the exception it raises, "" for none.
DoubleArrayRaises(v) ==
    IF v[1] = "str" THEN IF v[2] = "" THEN "" ELSE "TypeError"
    ELSE IF \A i \in 1..Len(v[2]) : v[2][i][1] \in {"int", "float"} THEN ""
    ELSE "TypeError"

\* Drawing.stroke_dash_array setter
stroke_dash_array_setter(dash_array, res) ==
    IF LenRaises(dash_array) # "" THEN Raise(LenRaises(dash_array), <<>>)
    ELSE IF DoubleArrayRaises(dash_array) # ""
        THEN Raise(DoubleArrayRaises(dash_array), <<>>)
    ELSE IF resource_closed(res) THEN Raise("DestroyedResourceError", <<>>)
    ELSE Return(PyNone,
                <<Call("DrawSetStrokeDashArray", res,
                       <<IF dash_array[1] = "str" THEN <<>>
                         ELSE Values(dash_array[2])>>)>>)

\* The setter of the plain property p.
plain_setter(p, v, res, okay) ==
    CASE p \in OpacityProps \cup SpacingProps -> real_setter(p, v, res)
      [] p \in FlagProps -> flag_setter(p, v, res)
      [] p = "font" -> font_setter(v, res, okay)
      [] p = "clip_path" -> clip_path_setter(v, res, okay)
      [] p = "text_encoding" -> text_encoding_setter(v, res)
      [] p \in PaintProps -> paint_setter(p, v, res)
      [] p = "stroke_miter_limit" -> stroke_miter_limit_setter(v, res)
      [] p = "stroke_dash_offset" -> stroke_dash_offset_setter(v, res)
      [] p = "stroke_dash_array" -> stroke_dash_array_setter(v, res)

DashArrays ==
    {PyList(<<>>), PyList(<<PyInt(1), PyInt(0)>>), PyList(<<PyStr("x")>>),
     PyNone, PyStr("x")}

PlainArgs(p) ==
    CASE p \in OpacityProps \cup SpacingProps -> NumArgs
      [] p \in FlagProps -> {PyInt(0), PyStr("x"), PyNone, PyBool(TRUE)}
      [] p = "font" -> {PyStr("serif"), PyInt(0), PyNone}
      [] p = "clip_path" -> {PyStr("mask"), PyInt(0)}
      [] p = "text_encoding" -> {PyStr("UTF-8"), PyNone, PyInt(0)}
      [] p \in PaintProps -> ColorArgs
      [] p = "stroke_miter_limit" ->
            {PyInt(n) : n \in Nums} \cup {PyFloat(1), PyNone}
      [] p = "stroke_dash_offset" -> NumArgs
      [] p = "stroke_dash_array" -> DashArrays

plain_set(o, p, okay) ==
    /\ focus = p
    /\ p \in {"clip_path", "font"} \/ okay
    /\ OpStep("set", p, o, given, plain_setter(p, given, c_resource[o], okay))

\* A getter that answers from what the wrapper saw at construction.
plain_getter_remembered(p, res) ==
    LET pixel ==
            IF p \in PaintProps THEN <<Call("NewPixelWand", NULL, <<>>)>>
            ELSE <<>>
        get == <<Call(PlainGetter(p), res, <<>>)>>
    IN  IF resource_closed(res) THEN Raise("DestroyedResourceError", pixel)
        ELSE
            LET held == PropDefault(p)
            IN  CASE p \in PaintProps ->
                        Return(PyColor(held),
                               pixel \o get \o
                                   <<Call("PixelGetMagickColor", NULL, <<>>)>>)
                  [] p \in FlagProps -> Return(PyBool(held # 0), get)
                  [] p \in StringProps ->
                        Return(text(<<"bytes", held>>), get)
                  [] p = "stroke_dash_array" ->
                        Return(PyList([i \in 1..Len(held) |->
                                            PyFloat(held[i])]), get)
                  [] OTHER -> Return(PyInt(held), get)

\* The getter of the plain property p.
plain_getter(p, res) ==
    LET pixel ==
            IF p \in PaintProps THEN <<Call("NewPixelWand", NULL, <<>>)>>
            ELSE <<>>
        get == <<Call(PlainGetter(p), res, <<>>)>>
    IN  IF resource_closed(res) THEN Raise("DestroyedResourceError", pixel)
        ELSE
            LET held == wand[res].prop[p]
            IN  CASE p \in PaintProps ->
                        Return(PyColor(held),
                               pixel \o get \o
                                   <<Call("PixelGetMagickColor", NULL, <<>>)>>)
                  [] p \in FlagProps -> Return(PyBool(held # 0), get)
                  [] p \in StringProps ->
                        Return(text(<<"bytes", held>>), get)
                  [] p = "stroke_dash_array" ->
                        Return(PyList([i \in 1..Len(held) |->
                                            PyFloat(held[i])]), get)
                  [] OTHER -> Return(PyInt(held), get)

plain_get(o, p) ==
    /\ focus = p
    /\ OpStep("get", p, o, PyNone, plain_getter(p, c_resource[o]))

\* Drawing.clear()
clear(res) ==
    IF resource_closed(res) THEN Raise("DestroyedResourceError", <<>>)
    ELSE Return(PyNone, <<Call("ClearDrawingWand", res, <<>>)>>)

clear_call(o) ==
    /\ exists[o]
    /\ OpStep("call", "clear", o, PyNone, clear(c_resource[o]))

\* Drawing.vector_graphics setter
vector_graphics_setter(vector_graphics, res) ==
    IF vector_graphics # PyNone /\ ~isinstance_string_type(vector_graphics)
    THEN Raise("TypeError", <<>>)
    ELSE IF resource_closed(res) THEN Raise("DestroyedResourceError", <<>>)
    ELSE IF vector_graphics = PyNone
        THEN Return(PyNone, <<Call("DrawResetVectorGraphics", res, <<>>)>>)
    ELSE IF Understood(vector_graphics[2])
        THEN Return(PyNone,
                    <<Call("DrawSetVectorGraphics", res,
                           <<vector_graphics[2]>>)>>)
    ELSE Raise("ValueError",
               <<FailedCall("DrawSetVectorGraphics", res,
                            <<vector_graphics[2]>>)>>)

\* The documents assigned in a behaviour that exercises property p.
VectorArgs(p) == {PyNone, PyInt(0), PyStr(XmlFor(p)), PyStr("bogus")}

vector_graphics_set(o) ==
    /\ exists[o]
    /\ \E vg \in VectorArgs(focus) :
        OpStep("set", "vector_graphics", o, vg,
               vector_graphics_setter(vg, c_resource[o]))

\* ------------------------------------------------------------------ draw
\* Where the native library leaves the error of a render that failed: in
\* the drawing wand's error channel or in the image's.
ErrorChannels == {"drawing", "image"}

\* Drawing.draw(image): rendered is the result of MagickDrawImage, recorded
\* the channel its error is left in when it fails. The call is recorded on
\* the wand whose state it affects.
draw(image, res, rendered, recorded) ==
    IF ~isinstance_Image(image) THEN Raise("TypeError", <<>>)
    ELSE IF resource_closed(res) THEN Raise("DestroyedResourceError", <<>>)
    ELSE IF rendered
        THEN Return(PyNone, <<Call("MagickDrawImage", NULL, <<image[2], res>>)>>)
    ELSE
        LET render ==
                FailedCall("MagickDrawImage",
                           IF recorded = "drawing" THEN res ELSE NULL,
                           <<image[2], res>>)
            e == raise_exception(wand[res].exception \/ recorded = "drawing",
                                 res)
        IN  IF e.raises THEN Raise("WandException", <<render>> \o e.calls)
            ELSE Return(PyNone, <<render>> \o e.calls)

DrawArgs == {PyImage(1), PyNone, PyInt(0)}

draw_call(o, rendered, recorded) ==
    /\ exists[o]
    /\ rendered => recorded = "image"
    /\ \E image \in DrawArgs :
        OpStep("call", "draw", o, image,
               draw(image, c_resource[o], rendered, recorded))

\* ------------------------------------------------------- the state machine
Focuses ==
    EnumProps \cup
        {"stroke_width", "font_size", "stroke_color",
         "text_interline_spacing", "rectangle", "skew"}

NoCall ==
    [kind |-> "none", op |-> "", obj |-> 0, arg |-> PyNone, outcome |-> "ok",
     ret |-> PyNone, calls |-> <<>>]

\* The arguments the operation under focus f is called with.
ArgsOf(f) ==
    CASE f \in EnumProps -> EnumArgs(f)
      [] f \in {"stroke_width", "font_size", "text_interline_spacing"} ->
            NumArgs
      [] f = "stroke_color" -> ColorArgs
      [] f = "rectangle" -> RectArgs
      [] f = "skew" -> NumArgs \X NumArgs
      [] f \in PointFocuses -> PointArgs
      [] f \in PathFocuses -> PathArgs(f)
      [] f \in PlainProps -> PlainArgs(f)
      [] f \in ShapeFocuses \ (PointFocuses \cup {"rectangle"}) -> ShapeArgs(f)
      [] f = "get_font_metrics" -> ShapeArgs(f)
      [] f = "path_sequence" -> {PyNone}

\* The state before any construction, in a behaviour that exercises one of
\* the operations F.
InitFor(F) ==
    /\ focus \in F
    /\ given \in ArgsOf(focus)
    /\ libInterline \in
            IF focus = "text_interline_spacing" THEN BOOLEAN ELSE {TRUE}
    /\ exists = [o \in Objs |-> FALSE]
    /\ c_resource = [o \in Objs |-> None]
    /\ acquired = [o \in Objs |-> NULL]
    /\ clonedFrom = [o \in Objs |-> 0]
    /\ scope = [o \in Objs |-> "none"]
    /\ nextHandle = 1
    /\ live = {}
    /\ wand = [h \in Handles |-> FreedWand]
    /\ destroyCalls = [h \in Handles |-> 0]
    /\ last = NoCall

Init == InitFor(Focuses)

\* Drawing(drawing=...) and destroy() as the behaviours of one operation
\* family use them.
Create ==
    \E self \in Objs, allocOk \in BOOLEAN :
        \E drawing \in DrawingArgs : New(self, drawing, allocOk)
Destroy == \E o \in Objs : destroy(o)
\* Drawing(drawing=...) in the behaviours that keep to one wrapper.
CreateOne ==
    \E allocOk \in BOOLEAN : \E drawing \in DrawingArgs :
        New(1, drawing, allocOk)

Lifecycle ==
    \/ \E self \in Objs, allocOk \in BOOLEAN :
        \E drawing \in DrawingArgs : New(self, drawing, allocOk)
    \/ \E o \in Objs, self \in Objs, allocOk \in BOOLEAN :
        clone(o, self, allocOk)
    \/ \E o \in Objs : destroy(o)
    \/ \E o \in Objs : enter(o)
    \/ \E o \in Objs, raised \in BOOLEAN : exit(o, raised)

Next ==
    \/ Lifecycle
    \/ \E o \in Objs, p \in EnumProps : enum_set(o, p)
    \/ \E o \in Objs, p \in EnumProps : enum_get(o, p)
    \/ \E o \in Objs : stroke_width_set(o)
    \/ \E o \in Objs : stroke_width_get(o)
    \/ \E o \in Objs : font_size_set(o)
    \/ \E o \in Objs : font_size_get(o)
    \/ \E o \in Objs : stroke_color_set(o)
    \/ \E o \in Objs : stroke_color_get(o)
    \/ \E o \in Objs : text_interline_spacing_set(o)
    \/ \E o \in Objs : text_interline_spacing_get(o)
    \/ \E o \in Objs, nativeOk \in BOOLEAN : rectangle_call(o, nativeOk)
    \/ \E o \in Objs : skew_call(o)

Spec == Init /\ [][Next]_vars

\* The behaviours that exercise the path operators.
NextPaths ==
    \/ Create
    \/ Destroy
    \/ \E o \in Objs : path_start_call(o)
    \/ \E o \in Objs : path_finish_call(o)
    \/ \E o \in Objs : path_close_call(o)
    \/ \E o \in Objs : path_move_call(o)
    \/ \E o \in Objs : path_line_call(o)
    \/ \E o \in Objs : path_horizontal_line_call(o)
    \/ \E o \in Objs : path_vertical_line_call(o)
    \/ \E o \in Objs : path_curve_call(o)
    \/ \E o \in Objs : path_curve_to_quadratic_bezier_call(o)
    \/ \E o \in Objs : path_elliptic_arc_call(o)

SpecPaths == InitFor(PathFocuses) /\ [][NextPaths]_vars

\* The behaviours that exercise the shape operations.
NextShapes ==
    \/ Create
    \/ Destroy
    \/ \E o \in Objs : line_call(o)
    \/ \E o \in Objs : circle_call(o)
    \/ \E o \in Objs : ellipse_call(o)
    \/ \E o \in Objs : arc_call(o)
    \/ \E o \in Objs, nativeOk \in BOOLEAN : rectangle_call(o, nativeOk)
    \/ \E o \in Objs : point_call(o)
    \/ \E o \in Objs : polygon_call(o)
    \/ \E o \in Objs : polyline_call(o)
    \/ \E o \in Objs : bezier_call(o)
    \/ \E o \in Objs : color_call(o)
    \/ \E o \in Objs : matte_call(o)
    \/ \E o \in Objs : text_call(o)
    \/ \E o \in Objs : text_encoding_chosen(o)

SpecShapes == InitFor(ShapeFocuses) /\ [][NextShapes]_vars

\* The behaviours that exercise the properties: setters, getters, clear()
\* and vector_graphics assignments.
NextProps ==
    \/ CreateOne
    \/ Destroy
    \/ \E o \in Objs, p \in EnumProps : enum_set(o, p)
    \/ \E o \in Objs, p \in EnumProps : enum_get(o, p)
    \/ \E o \in Objs : stroke_width_set(o)
    \/ \E o \in Objs : stroke_width_get(o)
    \/ \E o \in Objs : font_size_set(o)
    \/ \E o \in Objs : font_size_get(o)
    \/ \E o \in Objs : stroke_color_set(o)
    \/ \E o \in Objs : stroke_color_get(o)
    \/ \E o \in Objs : text_interline_spacing_set(o)
    \/ \E o \in Objs : text_interline_spacing_get(o)
    \/ \E o \in Objs, p \in PlainProps, okay \in BOOLEAN : plain_set(o, p, okay)
    \/ \E o \in Objs, p \in PlainProps : plain_get(o, p)
    \/ \E o \in Objs : clear_call(o)
    \/ \E o \in Objs : vector_graphics_set(o)

SpecProps == InitFor(AllProps) /\ [][NextProps]_vars

\* The behaviours that add shapes to a Drawing and render it.
NextDraw ==
    \/ NextShapes
    \/ \E o \in Objs, rendered \in BOOLEAN, recorded \in ErrorChannels :
        draw_call(o, rendered, recorded)

SpecDraw == InitFor(ShapeFocuses) /\ [][NextDraw]_vars

\* The behaviours that exercise text() and get_font_metrics().
NextText ==
    \/ CreateOne
    \/ Destroy
    \/ \E o \in Objs : text_encoding_chosen(o)
    \/ \E o \in Objs : text_call(o)
    \/ \E o \in Objs : get_font_metrics_call(o)

SpecText == InitFor({"text", "get_font_metrics"}) /\ [][NextText]_vars

\* The behaviours in which path operators follow one another in any order.
NextPathSeq ==
    \/ CreateOne
    \/ Destroy
    \/ \E o \in Objs, f \in PathFocuses : path_operator_call(o, f)

SpecPathSeq == InitFor({"path_sequence"}) /\ [][NextPathSeq]_vars

\* The behaviours that exercise polygon, polyline and bezier.
NextPoints ==
    \/ Create
    \/ Destroy
    \/ \E o \in Objs : polygon_call(o)
    \/ \E o \in Objs : polyline_call(o)
    \/ \E o \in Objs : bezier_call(o)

SpecPoints == InitFor(PointFocuses) /\ [][NextPoints]_vars

\* -------------------------------------------------------------- properties
\* `last` is a property read, a property write or a method call.
IsOp(l) == l.kind \in {"get", "set", "call"}
\* ... made on a wrapper that was destroyed before it.
OnClosed(l) == IsOp(l) /\ resource_closed(c_resource[l.obj])
IsOpen(o) == exists[o] /\ ~resource_closed(c_resource[o])

\* The documented domain of one rectangle axis: the end or the extent, a
\* number, the end not before the start, the extent not negative.
AxisDocumented(start, end, extent) ==
    /\ (end = PyNone) # (extent = PyNone)
    /\ end # PyNone => isinstance_Real(end) /\ end[2] >= start[2]
    /\ extent # PyNone => isinstance_Real(extent) /\ extent[2] >= 0

\* The documented domain of each operation's argument.
Documented(op, a) ==
    CASE op \in EnumProps -> InTuple(a, TYPES(op))
      [] op \in {"stroke_width", "font_size"} ->
            isinstance_Real(a) /\ a[2] >= 0
      [] op = "text_interline_spacing" -> isinstance_Real(a)
      [] op = "stroke_color" -> isinstance_Color(a)
      [] op = "rectangle" ->
            /\ isinstance_Real(a.left)
            /\ isinstance_Real(a.top)
            /\ AxisDocumented(a.left, a.right, a.width)
            /\ AxisDocumented(a.top, a.bottom, a.height)
      [] op = "skew" ->
            \A i \in 1..2 : a[i] = PyNone \/ isinstance_Real(a[i])

C2_DestroyAtMostOnce ==
    /\ \A h \in Handles :
        destroyCalls[h] = IF h < nextHandle /\ h \notin live THEN 1 ELSE 0
    /\ \A o \in Objs :
        exists[o] /\ resource_closed(c_resource[o]) =>
            destroyCalls[acquired[o]] = 1
    /\ last.kind = "destroy" =>
        /\ Len(last.calls) <= 1
        /\ last.calls = <<>> => last.outcome \in {"ok", "DestroyedResourceError"}
        /\ last.calls # <<>> => last.outcome = "ok"

\* A second destroy() on the same wrapper.
C2_SecondRelease ==
    /\ last.kind = "destroy"
    /\ last.op = "destroy"
    /\ last.calls = <<>>
    /\ destroyCalls[acquired[last.obj]] = 1

\* C3: a wrapper whose with-block was left, normally or by an exception,
\* is closed and the handle it acquired is released.
C3_WithBlockReleases ==
    \A o \in Objs :
        scope[o] = "left" =>
            /\ resource_closed(c_resource[o])
            /\ acquired[o] \notin live
            /\ destroyCalls[acquired[o]] = 1
            /\ stroke_width_getter(c_resource[o]).outcome =
                    "DestroyedResourceError"

\* A with-block left by an exception, releasing the handle.
C3_LeftByException ==
    /\ last.op = "__exit__"
    /\ last.arg = <<"bool", TRUE>>
    /\ last.calls # <<>>
    /\ scope[last.obj] = "left"

\* C4: a property write or a drawing method on one Drawing leaves every
\* property value of every other open Drawing unchanged, its clones and
\* the Drawing it was cloned from included.
C4_CloneUnaffected ==
    [][IsOp(last') =>
        \A b \in Objs :
            (b # last'.obj /\ IsOpen(b)) =>
                /\ c_resource'[b] = c_resource[b]
                /\ wand'[c_resource[b]] = wand[c_resource[b]]]_vars

\* stroke_color set on a clone, the original keeping its own.
C4_CloneDiverged ==
    /\ last.kind = "set"
    /\ last.op = "stroke_color"
    /\ last.outcome = "ok"
    /\ clonedFrom[last.obj] # 0
    /\ IsOpen(clonedFrom[last.obj])
    /\ wand[c_resource[last.obj]].stroke_color = "red"
    /\ wand[c_resource[clonedFrom[last.obj]]].stroke_color = "none"

\* C5: a clone made by clone() or by the constructor has a handle of its
\* own and the source's state at the time of cloning; destroying a wrapper
\* leaves every other open wrapper open, readable and clonable; only
\* operations on a destroyed wrapper raise the closed-resource error.
C5_CloneIsIndependentResource ==
    [][/\ (/\ last'.kind = "new"
           /\ last'.outcome = "ok"
           /\ isinstance_Drawing(last'.arg)) =>
            /\ last'.op \in {"clone", "Drawing"}
            /\ c_resource'[last'.arg[2]] = c_resource[last'.arg[2]]
            /\ c_resource'[last'.obj] # c_resource[last'.arg[2]]
            /\ c_resource'[last'.obj] \in live'
            /\ c_resource[last'.arg[2]] \in live'
            /\ wand'[c_resource'[last'.obj]] = wand[c_resource[last'.arg[2]]]
            /\ wand'[c_resource[last'.arg[2]]] = wand[c_resource[last'.arg[2]]]
       /\ last'.kind = "destroy" =>
            \A s \in Objs :
                (s # last'.obj /\ IsOpen(s)) =>
                    /\ c_resource'[s] = c_resource[s]
                    /\ c_resource[s] \in live'
                    /\ wand'[c_resource[s]] = wand[c_resource[s]]
                    /\ stroke_width_getter(c_resource[s])'.outcome = "ok"
                    /\ Drawing_init(PyDrawing(s), TRUE)'.raise = ""
       /\ (IsOp(last') /\ ~resource_closed(c_resource'[last'.obj])) =>
            last'.outcome # "DestroyedResourceError"]_vars

\* The clone destroyed, then the source read.
C5_SourceOutlivesClone ==
    /\ last.kind = "get"
    /\ last.outcome = "ok"
    /\ \E n \in Objs :
        /\ clonedFrom[n] = last.obj
        /\ exists[n]
        /\ resource_closed(c_resource[n])

\* C6 as stated: when construction fails, the drawing argument not being a
\* Drawing included, the constructor raises and no wrapper holding a handle
\* comes to exist.
C6_NonDrawingArgumentRaises ==
    (/\ last.kind = "new"
     /\ last.arg # PyNone
     /\ ~isinstance_Drawing(last.arg)) =>
        /\ last.outcome # "ok"
        /\ ~exists[last.obj]

\* Drawing(drawing=0) returning an open wrapper around a new wand.
C6_FalsyArgumentAccepted ==
    /\ last.kind = "new"
    /\ last.arg = PyInt(0)
    /\ last.outcome = "ok"
    /\ IsOpen(last.obj)
    /\ last.calls[1].f = "NewDrawingWand"

C8_UnknownTokenRejected ==
    [][(/\ last'.kind = "set"
        /\ last'.op \in EnumProps
        /\ isinstance_string_type(last'.arg)
        /\ last'.arg[2] \notin Range(TYPES(last'.op))) =>
            /\ last'.outcome = "ValueError"
            /\ last'.calls = <<>>
            /\ wand' = wand]_vars

\* A token of another property's list refused by an open wrapper.
C8_ForeignTokenRefused ==
    /\ last.kind = "set"
    /\ last.op = "fill_rule"
    /\ last.arg = PyStr("center")
    /\ last.outcome = "ValueError"
    /\ IsOpen(last.obj)

NumProp(w, op) == IF op = "stroke_width" THEN w.stroke_width ELSE w.font_size

\* C9: stroke_width and font_size refuse a negative number with ValueError,
\* making no native call and keeping the value; on an open wrapper they
\* accept every number that is 0 or more and store it.
C9_NonNegativeSizes ==
    [][(/\ last'.kind = "set"
        /\ last'.op \in {"stroke_width", "font_size"}
        /\ isinstance_Real(last'.arg)) =>
            IF last'.arg[2] < 0
            THEN /\ last'.outcome = "ValueError"
                 /\ last'.calls = <<>>
                 /\ wand' = wand
            ELSE IsOpen(last'.obj) =>
                    /\ last'.outcome = "ok"
                    /\ NumProp(wand'[c_resource[last'.obj]], last'.op) =
                            last'.arg[2]]_vars

\* stroke_width set to 0.
C9_ZeroAccepted ==
    /\ last.kind = "set"
    /\ last.op = "stroke_width"
    /\ last.arg = PyInt(0)
    /\ last.outcome = "ok"
    /\ wand[c_resource[last.obj]].stroke_width = 0

\* A rectangle call with numbers for left and top and, on each axis, either
\* the end or an extent that is not negative, an extent on at least one.
ExtentForm(a) ==
    /\ isinstance_Real(a.left)
    /\ isinstance_Real(a.top)
    /\ (a.right = PyNone) # (a.width = PyNone)
    /\ (a.bottom = PyNone) # (a.height = PyNone)
    /\ \A v \in {a.right, a.bottom} : v = PyNone \/ isinstance_Real(v)
    /\ \A v \in {a.width, a.height} :
            v = PyNone \/ (isinstance_Real(v) /\ v[2] >= 0)
    /\ a.width # PyNone \/ a.height # PyNone

\* The same rectangle with each extent replaced by the end it stands for.
CornerForm(a) ==
    [a EXCEPT
        !.right = IF a.width = PyNone THEN @
                  ELSE PyInt(a.left[2] + a.width[2]),
        !.width = PyNone,
        !.bottom = IF a.height = PyNone THEN @
                   ELSE PyInt(a.top[2] + a.height[2]),
        !.height = PyNone]

\* C10: rectangle called with width and/or height ends as, and issues the
\* native calls of, the call with right = left + width and/or
\* bottom = top + height; on an open wrapper given ends that are not before
\* their starts that is one DrawRectangle with those four coordinates.
C10_ExtentFormEqualsCornerForm ==
    (/\ last.kind = "call"
     /\ last.op = "rectangle"
     /\ ExtentForm(last.arg)) =>
        LET c == CornerForm(last.arg)
            nativeOk == last.calls = <<>> \/ last.calls[1].ok
            r == rectangle(c, c_resource[last.obj], nativeOk)
        IN  /\ last.outcome = r.outcome
            /\ last.calls = r.calls
            /\ (/\ IsOpen(last.obj)
                /\ c.right[2] >= c.left[2]
                /\ c.bottom[2] >= c.top[2]) =>
                    /\ last.calls # <<>>
                    /\ last.calls[1].f = "DrawRectangle"
                    /\ last.calls[1].h = c_resource[last.obj]
                    /\ last.calls[1].a =
                        <<c.left[2], c.top[2], c.right[2], c.bottom[2]>>

\* rectangle(1, 0, width=1, bottom=1) drawn as (1, 0, 2, 1).
C10_MixedFormDrawn ==
    /\ last.kind = "call"
    /\ last.op = "rectangle"
    /\ last.outcome = "ok"
    /\ last.arg = RectArg(PyInt(1), PyInt(0), PyNone, PyInt(1), PyInt(1), PyNone)
    /\ last.calls[1].a = <<1, 0, 2, 1>>

UsageErrors == {"TypeError", "ValueError"}

\* A rectangle call without left or top, or with both or neither of the
\* end and the extent of an axis.
RectIllFormed(a) ==
    \/ a.left = PyNone
    \/ a.top = PyNone
    \/ (a.right = PyNone) = (a.width = PyNone)
    \/ (a.bottom = PyNone) = (a.height = PyNone)

\* C11: rectangle raises a usage error, makes no native call and changes
\* nothing when left or top is missing, or when both or neither of right
\* and width, or of bottom and height, are given.
C11_RectangleIllFormedRejected ==
    [][(/\ last'.kind = "call"
        /\ last'.op = "rectangle"
        /\ RectIllFormed(last'.arg)) =>
            /\ last'.outcome \in UsageErrors
            /\ last'.calls = <<>>
            /\ wand' = wand]_vars

\* Both right and width given to an open wrapper.
C11_BothEndAndExtent ==
    /\ last.kind = "call"
    /\ last.op = "rectangle"
    /\ last.arg.left # PyNone
    /\ last.arg.top # PyNone
    /\ last.arg.right # PyNone
    /\ last.arg.width # PyNone
    /\ last.outcome = "TypeError"
    /\ IsOpen(last.obj)

\* A well-formed rectangle call, all its arguments numbers.
RectWellFormedNumeric(a) ==
    /\ ~RectIllFormed(a)
    /\ \A v \in {a.left, a.top} : isinstance_Real(v)
    /\ \A v \in {a.right, a.bottom, a.width, a.height} :
            v = PyNone \/ isinstance_Real(v)

\* An end before its start, or a negative extent.
RectInverted(a) ==
    \/ a.right # PyNone /\ a.right[2] < a.left[2]
    \/ a.bottom # PyNone /\ a.bottom[2] < a.top[2]
    \/ a.width # PyNone /\ a.width[2] < 0
    \/ a.height # PyNone /\ a.height[2] < 0

\* C12: rectangle raises a usage error, makes no native call and changes
\* nothing when right < left, bottom < top, width < 0 or height < 0; every
\* DrawRectangle it issues has right >= left and bottom >= top.
C12_RectangleInvertedRejected ==
    [][(last'.kind = "call" /\ last'.op = "rectangle") =>
        /\ (RectWellFormedNumeric(last'.arg) /\ RectInverted(last'.arg)) =>
                /\ last'.outcome \in UsageErrors
                /\ last'.calls = <<>>
                /\ wand' = wand
        /\ \A i \in 1..Len(last'.calls) :
                last'.calls[i].f = "DrawRectangle" =>
                    /\ last'.calls[i].a[3] >= last'.calls[i].a[1]
                    /\ last'.calls[i].a[4] >= last'.calls[i].a[2]]_vars

\* rectangle(1, 0, right=0, bottom=1) refused by an open wrapper.
C12_EndBeforeStart ==
    /\ last.kind = "call"
    /\ last.op = "rectangle"
    /\ last.arg = RectArg(PyInt(1), PyInt(0), PyInt(0), PyInt(1), PyNone, PyNone)
    /\ last.outcome = "ValueError"
    /\ IsOpen(last.obj)

\* C18: with the interline-spacing entry points unresolved, reading and
\* writing text_interline_spacing raise the library-version error, make no
\* native call and change nothing, whatever the argument and whether or not
\* the wrapper is open; with them resolved no operation raises it.
C18_InterlineVersionError ==
    [][IsOp(last') =>
        /\ (last'.op = "text_interline_spacing" /\ ~libInterline) =>
                /\ last'.outcome = "WandLibraryVersionError"
                /\ last'.calls = <<>>
                /\ wand' = wand
        /\ last'.outcome = "WandLibraryVersionError" =>
                last'.op = "text_interline_spacing" /\ ~libInterline
        /\ "WandLibraryVersionError" \notin
                UsageErrors \cup {"WandException", "DestroyedResourceError"}]_vars

\* text_interline_spacing read on an open wrapper, the entry point missing.
C18_ReadUnresolved ==
    /\ last.kind = "get"
    /\ last.op = "text_interline_spacing"
    /\ ~libInterline
    /\ IsOpen(last.obj)
    /\ last.outcome = "WandLibraryVersionError"

\* C14 as stated: a drawing operation that raises a usage error has made no
\* native call.
C14_UsageErrorMeansNoNativeCall ==
    (last.kind = "call" /\ last.outcome \in UsageErrors) => last.calls = <<>>

\* skew(x, y) with a number for x and a string for y: DrawSkewX is applied
\* before float(y) raises ValueError.
C14_SkewHalfApplied ==
    /\ last.kind = "call"
    /\ last.op = "skew"
    /\ last.outcome = "ValueError"
    /\ Len(last.calls) = 1
    /\ last.calls[1].f = "DrawSkewX"
    /\ wand[c_resource[last.obj]].ops = <<"DrawSkewX">>

\* A list whose every element is a pair of numbers.
IsPairList(v) ==
    /\ isinstance_list(v)
    /\ \A i \in 1..Len(v[2]) :
        /\ v[2][i][1] = "tuple"
        /\ Len(v[2][i][2]) = 2
        /\ isinstance_Real(v[2][i][2][1])
        /\ isinstance_Real(v[2][i][2][2])

\* C13: for a list of N coordinate pairs the marshalling helper returns
\* length N and 2N doubles, the 0-based elements 2i and 2i+1 being xi and
\* yi in input order (nothing for the empty list); polygon, polyline and
\* bezier pass exactly that length and array in their one native call.
C13_PointsMarshalled ==
    (focus \in PointFocuses /\ IsPairList(given)) =>
        LET N == Len(given[2])
            info == list_to_point_info(given)
        IN  /\ info.raise = ""
            /\ info.length = N
            /\ Len(info.array) = 2 * N
            /\ \A i \in 0..(N - 1) :
                /\ info.array[2 * i + 1] = <<"double", given[2][i + 1][2][1][2]>>
                /\ info.array[2 * i + 2] = <<"double", given[2][i + 1][2][2][2]>>
            /\ (last.kind = "call" /\ IsOpen(last.obj)) =>
                /\ last.outcome = "ok"
                /\ Len(last.calls) = 1
                /\ last.calls[1].h = c_resource[last.obj]
                /\ last.calls[1].a = <<info.length, info.array>>

\* polygon([(0, 1), (1, 0)]) passing length 2 and [0.0, 1.0, 1.0, 0.0].
C13_TwoPointsPassed ==
    /\ last.kind = "call"
    /\ last.op = "polygon"
    /\ last.arg = PyList(<<PyTuple(<<PyInt(0), PyInt(1)>>),
                           PyTuple(<<PyInt(1), PyInt(0)>>)>>)
    /\ last.calls =
        <<Call("DrawPolygon", c_resource[last.obj],
               <<2, <<(<<"double", 0>>), (<<"double", 1>>),
                      (<<"double", 1>>), (<<"double", 0>>)>>>>)>>

PathOps ==
    {"path_start", "path_finish", "path_close", "path_move", "path_line",
     "path_horizontal_line", "path_vertical_line", "path_curve",
     "path_curve_to_quadratic_bezier", "path_elliptic_arc"}

\* C19: a path operator that returns normally returns the very Drawing it
\* was called on, whatever its relative and smooth flags are, having issued
\* its one native path call on that Drawing's handle.
C19_PathOperatorReturnsSelf ==
    (last.kind = "call" /\ last.op \in PathOps /\ last.outcome = "ok") =>
        /\ last.ret = PyDrawing(last.obj)
        /\ Len(last.calls) = 1
        /\ last.calls[1].h = c_resource[last.obj]

\* A smooth relative curve was appended and the call returned.
C19_SmoothRelativeCurveChained ==
    /\ last.kind = "call"
    /\ last.op = "path_curve"
    /\ last.outcome = "ok"
    /\ Truthy(last.arg.smooth)
    /\ Truthy(last.arg.relative)
    /\ last.calls[1].f = "DrawPathCurveToSmoothRelative"
    /\ last.ret = PyDrawing(last.obj)

ShapeOps ==
    {"line", "circle", "ellipse", "arc", "rectangle", "point", "polygon",
     "polyline", "bezier", "color", "matte", "text"}

\* The calls of a sequence that are neither queries of the error channel
\* nor (selected by the flag) reads and writes of the text encoding.
CallsBeside(cs, encodingToo) ==
    SelectSeq(cs, LAMBDA c :
        /\ c.f \notin {"DrawGetException", "DrawClearException"}
        /\ encodingToo =>
            c.f \notin {"DrawGetTextEncoding", "DrawSetTextEncoding"})

\* C20 as stated: a shape operation that returns issues exactly one native
\* call (queries of the error channel apart) and writes no property.
C20_OneCallNoPropertyWritten ==
    (last.kind = "call" /\ last.op \in ShapeOps /\ last.outcome = "ok") =>
        /\ Len(CallsBeside(last.calls, FALSE)) = 1
        /\ \A i \in 1..Len(last.calls) :
            last.calls[i].f \notin {PlainSetter(p) : p \in PlainProps}

\* C20 (amended): a shape operation that returns issues exactly one native
\* drawing call, on the Drawing's handle, and the native state changes only
\* by that instruction being appended; text() alone also reads the text
\* encoding and, when none is set, first sets it to 'UTF-8'; rectangle also
\* queries the error channel.
C20_ShapeAppendsOneInstruction ==
    [][(/\ last' # last
        /\ last'.kind = "call"
        /\ last'.op \in ShapeOps
        /\ last'.outcome = "ok") =>
            LET h == c_resource[last'.obj]
                drawn == CallsBeside(last'.calls, last'.op = "text")
            IN  /\ Len(drawn) = 1
                /\ drawn[1].h = h
                /\ drawn[1].f \in DrawingEntryPoints
                /\ \A i \in 1..Len(last'.calls) : last'.calls[i].h = h
                /\ wand' =
                    [wand EXCEPT
                        ![h].ops = Append(@, drawn[1].f),
                        ![h].prop["text_encoding"] =
                            IF last'.op = "text" /\ @ = "" THEN "UTF-8"
                            ELSE @]]_vars

\* text() returned on a Drawing whose encoding had been chosen before.
C20_TextWithChosenEncoding ==
    /\ last.kind = "call"
    /\ last.op = "text"
    /\ last.outcome = "ok"
    /\ Len(last.calls) = 3
    /\ wand[c_resource[last.obj]].prop["text_encoding"] = "latin-1"
    /\ wand[c_resource[last.obj]].ops = <<"DrawAnnotation">>

SetterProps == AllProps

\* The native value a setter hands over for the valid argument v.
NativeValue(p, v) ==
    CASE p \in EnumProps -> TupleIndex(TYPES(p), v[2])
      [] p \in FlagProps -> IF Truthy(v) THEN 1 ELSE 0
      [] p = "text_encoding" -> IF v = PyNone THEN "" ELSE v[2]
      [] p = "stroke_dash_array" ->
            IF v[1] = "str" THEN <<>> ELSE Values(v[2])
      [] OTHER -> v[2]

SetterName(p) ==
    CASE p \in EnumProps -> NativeSetter(p)
      [] p \in PlainProps -> PlainSetter(p)
      [] p = "stroke_width" -> "DrawSetStrokeWidth"
      [] p = "font_size" -> "DrawSetFontSize"
      [] p = "stroke_color" -> "DrawSetStrokeColor"
      [] p = "text_interline_spacing" -> "DrawSetTextInterlineSpacing"

IsSet == last.kind = "set" /\ last.op \in SetterProps

GetterName(p) ==
    CASE p \in EnumProps -> NativeGetter(p)
      [] p \in PlainProps -> PlainGetter(p)
      [] p = "stroke_width" -> "DrawGetStrokeWidth"
      [] p = "font_size" -> "DrawGetFontSize"
      [] p = "stroke_color" -> "DrawGetStrokeColor"
      [] p = "text_interline_spacing" -> "DrawGetTextInterlineSpacing"

\* The Python value a getter of property p hands back for the native
\* value v.
Wrapped(p, v) ==
    CASE p \in EnumProps -> GetterText(p, PyStr(TupleAt(TYPES(p), v)))
      [] p \in FlagProps -> PyBool(v # 0)
      [] p \in StringProps -> PyStr(v)
      [] p \in PaintProps \cup {"stroke_color"} -> PyColor(v)
      [] p = "stroke_dash_array" ->
            PyList([i \in 1..Len(v) |-> PyFloat(v[i])])
      [] OTHER -> PyInt(v)

RenderFailed ==
    /\ last.kind = "call"
    /\ last.op = "draw"
    /\ last.calls # <<>>
    /\ last.calls[1].f = "MagickDrawImage"
    /\ ~last.calls[1].ok

\* C17: when the native render call made by draw(image) reports failure,
\* draw raises the native error, and the Drawing's error channel is clear
\* afterwards.
C17_FailedRenderRaises ==
    RenderFailed =>
        /\ last.outcome = "WandException"
        /\ ~wand[c_resource[last.obj]].exception

\* The render failed, its error went to the image's channel, and draw
\* returned as if it had succeeded.
C17_FailedRenderSilent ==
    /\ RenderFailed
    /\ last.outcome = "ok"
    /\ last.ret = PyNone
    /\ last.calls[2].f = "DrawGetException"

\* C21: an operation whose native call signalled failure does not return
\* normally.
C21_FailedNativeCallRaises ==
    (IsOp(last) /\ \E i \in 1..Len(last.calls) : ~last.calls[i].ok) =>
        last.outcome # "ok"

\* The font setter returned although DrawSetFont reported failure.
C21_FontFailureSwallowed ==
    /\ last.kind = "set"
    /\ last.op = "font"
    /\ last.outcome = "ok"
    /\ last.calls = <<FailedCall("DrawSetFont", c_resource[last.obj],
                                 <<"serif">>)>>

IsPoints == last.kind = "call" /\ last.op \in PointFocuses

\* A tuple or a list whose elements are all pairs of numbers.
IsPairSequence(v) ==
    /\ v[1] \in {"list", "tuple"}
    /\ \A i \in 1..Len(v[2]) :
        /\ v[2][i][1] = "tuple"
        /\ Len(v[2][i][2]) = 2
        /\ \A k \in 1..2 : isinstance_Real(v[2][i][2][k])

\* C23 as stated: on an open Drawing every ordered sequence of numeric
\* pairs is accepted.
C23_AnySequenceAccepted ==
    (IsPoints /\ ~OnClosed(last) /\ IsPairSequence(last.arg)) =>
        last.outcome = "ok"

\* C23 (amended): polygon, polyline and bezier accept a list of numeric
\* pairs, issuing their one native call with it, and reject every argument
\* that is not a list (None and tuples included) with a type error and
\* without any native call.
C23_ListsOnly ==
    IsPoints =>
        /\ (~OnClosed(last) /\ isinstance_list(last.arg)
                /\ IsPairSequence(last.arg)) =>
            /\ last.outcome = "ok"
            /\ Len(last.calls) = 1
            /\ last.calls[1].a[1] = Len(last.arg[2])
        /\ ~isinstance_list(last.arg) =>
            /\ last.outcome = "TypeError"
            /\ last.calls = <<>>

\* A tuple of pairs was refused.
C23_TupleOfPairsRefused ==
    /\ IsPoints
    /\ ~OnClosed(last)
    /\ last.arg = PyTuple(<<PyTuple(<<PyInt(0), PyInt(1)>>)>>)
    /\ last.outcome = "TypeError"

CallsOf(cs, f) == Len(SelectSeq(cs, LAMBDA c : c.f = f))

\* C24: a pixel handle an operation allocates and hands to no wrapper
\* object is released by that operation, so that nothing stays live once
\* the wrappers are destroyed.
C24_PixelHandlesReleased ==
    IsOp(last) =>
        CallsOf(last.calls, "NewPixelWand") =
            CallsOf(last.calls, "DestroyPixelWand")

\* The fill_color getter returned a Color built from a copy of the pixel
\* data; the pixel handle it allocated was neither released nor kept.
C24_GetterLeavesPixelHandle ==
    /\ last.kind = "get"
    /\ last.op = "fill_color"
    /\ last.outcome = "ok"
    /\ last.ret[1] = "Color"
    /\ CallsOf(last.calls, "NewPixelWand") = 1
    /\ CallsOf(last.calls, "DestroyPixelWand") = 0

VectorGraphicsReset ==
    /\ last.kind = "set"
    /\ last.op = "vector_graphics"
    /\ last.arg = PyNone
    /\ last.outcome = "ok"

\* C25: once None has been assigned to vector_graphics, every property
\* holds the value it has in a freshly created Drawing (which is what its
\* getter then returns), and a document the native library rejects raises
\* ValueError.
C25_ResetRestoresDefaults ==
    /\ VectorGraphicsReset =>
        \A p \in AllProps :
            Held(wand[c_resource[last.obj]], p) = Held(NewWandState, p)
    /\ (/\ last.kind = "set"
        /\ last.op = "vector_graphics"
        /\ \E i \in 1..Len(last.calls) : ~last.calls[i].ok) =>
            last.outcome = "ValueError"

\* None was assigned and the stroke opacity written before it is still
\* held.
C25_OpacitySurvivesReset ==
    /\ VectorGraphicsReset
    /\ wand[c_resource[last.obj]].prop["stroke_opacity"] = 0

\* A read of an enumerated property on an open Drawing.
EnumRead ==
    last.kind = "get" /\ last.op \in EnumProps /\ ~OnClosed(last)
HeldIndex == Held(wand[c_resource[last.obj]], last.op)
ConsultsErrorChannel ==
    \E i \in 1..Len(last.calls) : last.calls[i].f = "DrawGetException"

\* C26: an enumerated getter returns the token of a valid index without
\* consulting the error channel, and raises the library's error for an
\* index outside the list.
C26_ErrorPathIffInvalidIndex ==
    EnumRead =>
        IF HeldIndex \in 0..(Len(TYPES(last.op)) - 1)
        THEN /\ last.outcome = "ok"
             /\ ~ConsultsErrorChannel
        ELSE last.outcome = "WandException"

\* fill_rule was read at a valid, non-zero index and the error channel was
\* consulted all the same.
C26_FillRuleConsultsOnValidIndex ==
    /\ EnumRead
    /\ last.op = "fill_rule"
    /\ HeldIndex = 1
    /\ last.outcome = "ok"
    /\ ConsultsErrorChannel

ZeroIsErrorProps ==
    {"gravity", "text_alignment", "text_decoration", "text_direction"}

\* C28: the gravity, text_alignment, text_decoration and text_direction
\* getters enter the error path (a query of the error channel after the
\* property query) when the native index is 0, returning the token at 0
\* only when no error is pending; for every other index they return the
\* token after the property query alone.
C28_ZeroIndexTakesErrorPath ==
    (EnumRead /\ last.op \in ZeroIsErrorProps) =>
        LET h == c_resource[last.obj]
            get == Call(NativeGetter(last.op), h, <<>>)
        IN  IF HeldIndex = 0
            THEN /\ Len(last.calls) >= 2
                 /\ last.calls[1] = get
                 /\ last.calls[2] = Call("DrawGetException", h, <<>>)
                 /\ last.outcome \in {"ok", "WandException"}
                 /\ last.outcome = "ok" =>
                        last.ret = text(PyStr(TupleAt(TYPES(last.op), 0)))
            ELSE /\ last.calls = <<get>>
                 /\ last.outcome = "ok"
                 /\ last.ret = text(PyStr(TupleAt(TYPES(last.op), HeldIndex)))

\* text_decoration, set to 'undefined', was read: index 0, error path.
C28_UndefinedDecorationRead ==
    /\ EnumRead
    /\ last.op = "text_decoration"
    /\ HeldIndex = 0
    /\ last.outcome = "ok"
    /\ last.ret = PyStr("undefined")
    /\ ConsultsErrorChannel

\* C30 as stated: on a destroyed Drawing every operation raises the
\* closed-resource error, whatever its argument, whatever error is pending
\* and whether or not its entry point is resolved, having made no native
\* allocation or call.
C30_ClosedErrorFirst ==
    OnClosed(last) =>
        /\ last.outcome = "DestroyedResourceError"
        /\ last.calls = <<>>

\* The arguments a property setter refuses before it reads its handle.
RefusedUnread(op, a) ==
    CASE op \in EnumProps \cup {"stroke_width", "font_size", "stroke_color",
                                "text_interline_spacing"} ->
            ~Documented(op, a)
      [] op \in OpacityProps \cup SpacingProps -> ~isinstance_Real(a)
      [] op \in {"font", "clip_path"} -> ~isinstance_string_type(a)
      [] op \in {"text_encoding", "vector_graphics"} ->
            a # PyNone /\ ~isinstance_string_type(a)
      [] op \in PaintProps -> ~isinstance_Color(a)
      [] op = "stroke_miter_limit" -> ~isinstance_Integral(a)
      [] op = "stroke_dash_array" ->
            LenRaises(a) # "" \/ DoubleArrayRaises(a) # ""
      [] OTHER -> FALSE

\* C30: on a destroyed Drawing a property access or clear() passes nothing
\* to the native layer but the pixel wand a colour getter allocates first,
\* and raises the version error when it is text_interline_spacing with the
\* entry point unresolved, else the usage error of an argument its setter
\* refuses before reading the handle, else the closed-resource error; a
\* pending native error never shows.
C30_ClosedErrorAfterArgumentChecks ==
    OnClosed(last) =>
        /\ last.calls =
                IF last.kind = "get"
                   /\ last.op \in PaintProps \cup {"stroke_color"}
                THEN <<Call("NewPixelWand", NULL, <<>>)>>
                ELSE <<>>
        /\ IF last.op = "text_interline_spacing" /\ ~libInterline
           THEN last.outcome = "WandLibraryVersionError"
           ELSE IF last.kind = "set" /\ RefusedUnread(last.op, last.arg)
           THEN last.outcome \in UsageErrors
           ELSE last.outcome = "DestroyedResourceError"

\* A negative stroke_width assigned to a destroyed Drawing: ValueError.
C30_NegativeWidthOnDestroyed ==
    /\ OnClosed(last)
    /\ last.kind = "set"
    /\ last.op = "stroke_width"
    /\ last.arg = PyInt(-1)
    /\ last.outcome = "ValueError"

MetricsEntryPoints == {"MagickQueryFontMetrics", "MagickQueryMultilineFontMetrics"}
IsMetricsQuery(c) == c.f \in MetricsEntryPoints

\* C22: get_font_metrics with an Image and a string issues exactly one
\* font-metrics query, after reading the text encoding: the multiline entry
\* point when multiline is true, else the single-line one, with the text
\* encoded in the Drawing's encoding, or in UTF-8 when none is set; when the
\* query answers, the FontMetrics returned holds answer[i] in the field
\* FONT_METRICS_ATTRIBUTES names at position i, for i in 0..12.  Any other
\* image or text raises TypeError with no native call made.
C22_OneQueryThirteenFields ==
    (last.kind = "call" /\ last.op = "get_font_metrics" /\ ~OnClosed(last)) =>
        LET a == last.arg
            h == c_resource[last.obj]
            held == wand[h].prop["text_encoding"]
            queries == SelectSeq(last.calls, IsMetricsQuery)
        IN  IF ~isinstance_Image(a.image) \/ ~isinstance_string_type(a.text)
            THEN last.outcome = "TypeError" /\ last.calls = <<>>
            ELSE IF held \notin Codecs \cup {""}
            THEN last.outcome = "LookupError" /\ queries = <<>>
            ELSE
                /\ Len(queries) = 1
                /\ last.calls[Len(last.calls)] = queries[1]
                /\ \A i \in 1..(Len(last.calls) - 1) :
                        last.calls[i] = Call("DrawGetTextEncoding", h, <<>>)
                /\ queries[1].f =
                        IF a.multiline = PyBool(TRUE)
                        THEN "MagickQueryMultilineFontMetrics"
                        ELSE "MagickQueryFontMetrics"
                /\ queries[1].a =
                        <<a.image[2], h,
                          encode(a.text[2],
                                 IF held = "" THEN "UTF-8" ELSE held)>>
                /\ (last.outcome = "ok") = (a.result # NullPointer)
                /\ last.outcome = "ok" =>
                        /\ last.ret[1] = "FontMetrics"
                        /\ \A i \in 0..12 :
                            last.ret[2][FONT_METRICS_ATTRIBUTES[i + 1]] =
                                a.result[2][i]

\* The multiline metrics of a non-ASCII text on a latin-1 Drawing.
C22_MultilineLatin1Metrics ==
    /\ last.kind = "call"
    /\ last.op = "get_font_metrics"
    /\ last.outcome = "ok"
    /\ last.arg.multiline = PyBool(TRUE)
    /\ last.arg.text = PyStr(Eacute)
    /\ Len(last.calls) = 3
    /\ last.calls[3].f = "MagickQueryMultilineFontMetrics"
    /\ last.calls[3].a[3] = <<"bytes", <<233>>>>
    /\ last.ret[2]["character_width"] = last.arg.result[2][0]
    /\ last.ret[2]["y"] = last.arg.result[2][12]

\* The error text(x, y, body) raises for its arguments, "" for none.
TextRefuses(x, y, body) ==
    IF isinstance_Real(x) /\ x[2] < 0 THEN "ValueError"
    ELSE IF ~isinstance_Integral(x) THEN "TypeError"
    ELSE IF isinstance_Real(y) /\ y[2] < 0 THEN "ValueError"
    ELSE IF ~isinstance_Integral(y) THEN "TypeError"
    ELSE IF ~isinstance_string_type(body) THEN "TypeError"
    ELSE IF body[2] = "" THEN "ValueError"
    ELSE ""

\* C29: text(x, y, body) raises ValueError for a negative x or y, TypeError
\* for a non-integral one and for a body that is not a string, ValueError
\* for an empty body, all with no native call; with valid arguments on a
\* Drawing whose text encoding is empty it leaves the encoding 'UTF-8', and
\* leaves a set encoding as it is; get_font_metrics leaves the text
\* encoding as it finds it.
C29_TextChoosesUtf8MetricsDoNot ==
    [][(/\ last'.kind = "call"
        /\ last'.op \in {"text", "get_font_metrics"}
        /\ ~resource_closed(c_resource[last'.obj])) =>
            LET a == last'.arg
                h == c_resource[last'.obj]
                before == wand[h].prop["text_encoding"]
                after == wand'[h].prop["text_encoding"]
            IN  IF last'.op = "get_font_metrics" THEN after = before
                ELSE IF TextRefuses(a.x, a.y, a.body) # ""
                THEN /\ last'.outcome = TextRefuses(a.x, a.y, a.body)
                     /\ last'.calls = <<>>
                     /\ wand' = wand
                ELSE /\ after = IF before = "" THEN "UTF-8" ELSE before
                     /\ last'.outcome =
                            IF after \in Codecs THEN "ok" ELSE "LookupError"]_vars

\* text() drew a non-ASCII body on a fresh Drawing: the encoding was set to
\* 'UTF-8' and the body went out in it.
C29_FreshDrawingTextSetsUtf8 ==
    /\ last.kind = "call"
    /\ last.op = "text"
    /\ last.outcome = "ok"
    /\ last.arg.body = PyStr(Eacute)
    /\ Len(last.calls) = 4
    /\ last.calls[2] = Call("DrawSetTextEncoding", c_resource[last.obj],
                            <<"UTF-8">>)
    /\ last.calls[4].a[3] = <<"bytes", <<195, 169>>>>
    /\ wand[c_resource[last.obj]].prop["text_encoding"] = "UTF-8"

\* C27: a path operator called with valid arguments on an open Drawing is
\* never refused, whatever operators came before it and whether or not a
\* path was started: it is forwarded as exactly one native call on the
\* Drawing's handle, and the wand's instructions grow by that call at the
\* end, so the native calls keep the order of the wrapper calls.
C27_PathOperatorsForwardedInOrder ==
    [][(/\ focus = "path_sequence"
        /\ last'.kind = "call"
        /\ last'.op \in PathOps
        /\ ~resource_closed(c_resource[last'.obj])) =>
            LET h == c_resource[last'.obj]
            IN  /\ last'.outcome = "ok"
                /\ Len(last'.calls) = 1
                /\ last'.calls[1].h = h
                /\ last'.calls[1].ok
                /\ last'.calls[1].f \in DrawingEntryPoints
                /\ wand'[h].ops = Append(wand[h].ops, last'.calls[1].f)]_vars

\* A line drawn with no path started, then path_finish with nothing to
\* finish: both forwarded, in that order.
C27_LineThenFinishUnbracketed ==
    /\ focus = "path_sequence"
    /\ last.kind = "call"
    /\ last.op = "path_finish"
    /\ last.outcome = "ok"
    /\ wand[c_resource[last.obj]].ops =
            <<"DrawPathLineToAbsolute", "DrawPathFinish">>

====
